---- MODULE Spec2Model ----
(***************************************************************************)
(* SMITH: the worker loop (run_agent_in_thread), the planner               *)
(* (DynamicPlanner), the gateway (MCPGateway), the dispatcher              *)
(* (PlanExecutor), the event queue and the Observer (CockpitUI).           *)
(*                                                                         *)
(* Python values are encoded as follows: a dict is a function whose        *)
(* domain is its set of keys; None is the string "None"; an event tuple is *)
(* a TLA+ tuple; current_step = None is the number 0 (planner ids start    *)
(* at 1).                                                                  *)
(***************************************************************************)
EXTENDS Integers, Sequences, FiniteSets, TLC

\* ------------------------------------------------------------- bounds

\* A bounded run asks the decision source for at most MaxSteps steps.
MaxSteps == 2

\* The longest event stream of a bounded run: three events per step and the
\* two AGENT_FINISHED events of the except and finally clauses.
Window == 3 * MaxSteps + 2

\* In the fair specification the worker starts a cycle only while fewer than
\* MaxLag events wait in the queue (the Observer keeps up with the worker).
MaxLag == 2

\* A producer other than the worker puts at most MaxEvents events
MaxEvents == 4

\* At most MaxCalls calls of the task manager change the tasks file
MaxCalls == 4

\* ------------------------------------------------------------- values

None == "None"
NoExc == "no exception"
NoStep == 0

\* dict.get(key, default)
Get(d, k, default) == IF k \in DOMAIN d THEN d[k] ELSE default

\* Python truth value of a string-or-None value
Falsy(v) == v = None \/ v = ""

\* {**base, **over}: the keys of over win
Merge(base, over) == over @@ base

\* Sequences of an unbounded run keep their last Window entries; a bounded
\* run never has more, so there nothing is dropped.
Keep(s) == IF Len(s) > Window THEN Tail(s) ELSE s

Push(s, x) == Keep(Append(s, x))

\* ------------------------------------------------------------- gateway

\* A JSON value that is no object (a string, a list, null) where an object is
\* expected: unpacking it with ** raises TypeError.
NotAMapping == [scalar |-> "not a mapping"]

Modes == {"live", "local"}

\* What _heuristic_step finds in the lower-cased prompt, in its order of tests.
Prompts == {"add endpoint", "refactor", "fix", "other"}

_heuristic_first ==
    [action |-> "run_command",
     parameters |-> [command |-> "ls -la && find . -name '*.py'"],
     description |-> "explore the project structure"]

_heuristic_rest(p) ==
    IF p = "add endpoint" THEN
        [action |-> "modify_code",
         parameters |-> [operation |-> "add_endpoint", path |-> "/autogen"],
         description |-> "add a new endpoint"]
    ELSE IF p = "refactor" THEN
        [action |-> "modify_code",
         parameters |-> [operation |-> "refactor_godobject", file |-> "GodObject.py"],
         description |-> "refactor a complex file"]
    ELSE IF p = "fix" THEN
        [action |-> "verify_code",
         parameters |-> [tool |-> "pytest"],
         description |-> "run the tests to find the error"]
    ELSE
        [action |-> "run_command",
         parameters |-> [command |-> "ls -la"],
         description |-> "basic project navigation"]

\* MCPGateway._heuristic_step: the first call explores, the later ones depend
\* on the prompt alone; it never answers finish_task.
_heuristic_step(wasAnalyzed, p) ==
    IF ~wasAnalyzed THEN _heuristic_first ELSE _heuristic_rest(p)

\* The answer generate_step gives when the API call or the parsing fails.
ApiErrorResponse ==
    [action |-> "finish_task",
     parameters |-> [reason |-> "Failed to get next step from LLM"],
     description |-> "finish because of an API error"]

\* JSON objects the live model may answer (any object parses): steps of each
\* action kind (with and without the parameters the handler reads), a step
\* whose parameters carry their own "id", an object without action,
\* parameters that are no object, finish_task, the empty object.
LLMResponses ==
    << [action |-> "run_command", parameters |-> [command |-> "rm -rf build"],
       description |-> "clean the build"],
      [action |-> "run_command", parameters |-> [command |-> "ls -la", id |-> 1],
       description |-> "list files"],
      [action |-> "run_command", parameters |-> <<>>,
       description |-> "run nothing"],
      [action |-> "human_feedback", parameters |-> [question |-> "Proceed?"],
       description |-> "ask the operator"],
      [action |-> "human_feedback", parameters |-> <<>>,
       description |-> "confirm the plan"],
      [action |-> "modify_code", parameters |-> [operation |-> "rename_symbol"],
       description |-> "rename a symbol"],
      [action |-> "modify_code", parameters |-> <<>>,
       description |-> "change the code"],
      [action |-> "modify_code",
       parameters |-> [operation |-> "replace_library", old_lib |-> "requests",
                       new_lib |-> "httpx"],
       description |-> "replace a library"],
      [action |-> "modify_code",
       parameters |-> [operation |-> "update_dependency", package |-> "flask"],
       description |-> "unpin a dependency"],
      [action |-> "verify_code", parameters |-> [tool |-> "bandit"],
       description |-> "scan the code"],
      [action |-> "deploy", parameters |-> <<>>,
       description |-> "deploy the project"],
      [parameters |-> <<>>, description |-> "no action given"],
      [action |-> "run_command", parameters |-> NotAMapping,
       description |-> "malformed parameters"],
      [action |-> "finish_task", parameters |-> [reason |-> "done"],
       description |-> "finish"],
      <<>> >>

\* MCPGateway.generate_step: the answers it can return in a mode (it catches
\* every exception of the live call and answers ApiErrorResponse instead).
generate_step(m, wasAnalyzed, p) ==
    IF m = "local" THEN <<_heuristic_step(wasAnalyzed, p)>>
    ELSE Append(LLMResponses, ApiErrorResponse)

\* The answer r is the one the except clause of generate_step returns.
FromExceptClause(r) == Get(r, "description", None) = ApiErrorResponse.description

\* ------------------------------------------------------------- planner

\* `not llm_response or llm_response.get("action") == "finish_task"`
EndsTask(r) == DOMAIN r = {} \/ Get(r, "action", None) = "finish_task"

\* The id counter of a bounded run grows by one; past MaxSteps (unbounded
\* runs only) the model stops counting.
NextCounter(c) == IF c < MaxSteps THEN c + 1 ELSE c

\* DynamicPlanner._create_step_from_llm_response, given the incremented counter
_create_step_from_llm_response(c, r) ==
    Merge([id |-> c,
           action |-> Get(r, "action", None),
           description |-> Get(r, "description", "step generated by the LLM")],
          Get(r, "parameters", <<>>))

\* `**(response.get("parameters", {}))` raises TypeError unless it is a mapping
ParametersAreMapping(r) == "scalar" \notin DOMAIN Get(r, "parameters", <<>>)

\* MAX_HISTORY_ITEMS
MAX_HISTORY_ITEMS == 5

\* str.upper on the status words
Upper(word) ==
    CASE word = "succeeded" -> "SUCCEEDED"
      [] word = "failed" -> "FAILED"
      [] word = "unknown" -> "UNKNOWN"
      [] OTHER -> word

\* history[-MAX_HISTORY_ITEMS:]
Recent(h) == SubSeq(h, IF Len(h) > MAX_HISTORY_ITEMS THEN Len(h) - MAX_HISTORY_ITEMS + 1 ELSE 1,
                    Len(h))

\* What _format_history writes for one record of the history: the step's
\* description and action, the status in capitals, and the error line or
\* the output line where it writes one (None where it writes none).
FormatRecord(record) ==
    LET step == Get(record, "step", <<>>)
        res == Get(record, "result", <<>>)
        status == Get(res, "status", "unknown")
    IN  [description |-> Get(step, "description", "N/A"),
         action |-> Get(step, "action", None),
         status |-> Upper(status),
         error |-> IF status = "failed" THEN Get(res, "error", "N/A") ELSE None,
         output |-> IF status # "failed" /\ ~Falsy(Get(res, "stdout", None))
                    THEN res.stdout ELSE None]

\* DynamicPlanner._format_history, one entry per line group that it writes
_format_history(h) == [i \in 1..Len(Recent(h)) |-> FormatRecord(Recent(h)[i])]

\* ------------------------------------------------------------- dispatcher

\* What the collaborator or subprocess of a step does: "ok" (confirmation
\* given, summary returned, exit code 0), "fail" (confirmation refused,
\* summary with status failed, non-zero exit code), "raise" (it raises).
Outcomes == {"ok", "fail", "raise"}

\* A child process that never exits on its own.
Hang == "hang"

\* subprocess.run called without a timeout argument (timeout=None)
NoTimeout == "None"

\* subprocess.run(..., timeout=t) waits for the child: for ever when the child
\* never exits and t is None; with a timeout it raises TimeoutExpired.
WaitsForever(t, out) == out = Hang /\ t = NoTimeout

Blocked == "blocked for ever"

Effect(k, a) == [kind |-> k, arg |-> a]

Returns(d, fx) == [exc |-> NoExc, ret |-> d, effects |-> fx]

Raises(msg, fx) == [exc |-> msg, ret |-> <<>>, effects |-> fx]

\* The call never returns and never raises.
Blocks(fx) == [exc |-> Blocked, ret |-> <<>>, effects |-> fx]

\* A dispatcher that takes every answer for a confirmation.
HumanFeedbackAlwaysConfirmed(step, out) ==
    Returns([status |-> "succeeded"],
            <<Effect("request_confirmation", Get(step, "description", None))>>)

\* action == "human_feedback"
HumanFeedback(step, out) ==
    LET q == IF Falsy(Get(step, "question", None))
             THEN Get(step, "description", None)
             ELSE Get(step, "question", None)
        fx == <<Effect("request_confirmation", q)>>
    IN  IF out = "raise" THEN Raises("confirmation failed", fx)
        ELSE IF out = "ok" THEN Returns([status |-> "succeeded"], fx)
        ELSE Returns([status |-> "failed", error |-> "Operation cancelled by user"], fx)

\* PlanExecutor.project_root
ProjectRoot == "project_root"

\* What a code_ops function returns when it does not raise: refactor_godobject
\* reports a status, the other functions report what they did.
Summary(fn, out) ==
    IF fn = "refactor_godobject" THEN
        IF out = "fail"
        THEN [status |-> "failed", error |-> "GodObject file not found in project root"]
        ELSE [status |-> "succeeded", original |-> "GodObject.py"]
    ELSE [function |-> fn, changed |-> (out = "ok")]

\* A dispatcher that reports every summary as a success.
SummaryAlwaysSucceeded(fn, summary) == [status |-> "succeeded", summary |-> summary]

\* What the modify_code branch returns for the summary of a code_ops function
SummaryResult(fn, summary) ==
    IF fn = "refactor_godobject" /\ summary.status = "failed"
    THEN [status |-> "failed", error |-> summary.error]
    ELSE [status |-> "succeeded", summary |-> summary]

\* action == "modify_code"
ModifyCode(step, out) ==
    LET operation == Get(step, "operation", None)
        Call(fn, args) ==
            IF out = "raise" THEN Raises("code_ops failed", <<Effect("code_ops." \o fn, args)>>)
            ELSE Returns(SummaryResult(fn, Summary(fn, out)),
                         <<Effect("code_ops." \o fn, args)>>)
    IN  IF operation = "replace_library"
        THEN Call("replace_library",
                  <<ProjectRoot, Get(step, "old_lib", None), Get(step, "new_lib", None)>>)
        ELSE IF operation = "update_dependency"
        THEN Call("update_dependency",
                  <<ProjectRoot, Get(step, "package", None), Get(step, "version", None)>>)
        ELSE IF operation = "add_endpoint"
        THEN Call("add_fastapi_endpoint",
                  <<ProjectRoot, Get(step, "path", None), Get(step, "framework", None)>>)
        ELSE IF operation = "refactor_godobject"
        THEN Call("refactor_godobject", <<ProjectRoot, Get(step, "file", None)>>)
        ELSE Returns([status |-> "failed",
                      error |-> "Unknown modify_code operation: " \o operation], <<>>)

\* ProjectVerifier._run_command: it catches every exception of subprocess.run,
\* which it calls without a timeout.
VerifierRun(tool, out) ==
    LET fx == <<Effect("subprocess", "python -m " \o tool)>>
    IN  IF WaitsForever(NoTimeout, out) THEN Blocks(fx)
        ELSE IF out = "raise"
        THEN Returns([status |-> "failed", command |-> "python -m " \o tool,
                      error |-> "An unexpected error occurred", exit_code |-> -1], fx)
        ELSE Returns([status |-> IF out = "ok" THEN "succeeded" ELSE "failed",
                      command |-> "python -m " \o tool,
                      stdout |-> "report",
                      stderr |-> IF out = "ok" THEN "" ELSE "tool errors",
                      exit_code |-> IF out = "ok" THEN 0 ELSE 1], fx)

\* action == "verify_code"
VerifyCode(step, out) ==
    LET tool == Get(step, "tool", None)
    IN  IF tool \in {"pytest", "flake8", "mypy"} THEN VerifierRun(tool, out)
        ELSE Returns([status |-> "failed",
                      error |-> "Unknown verification tool: " \o tool], <<>>)

\* The exit code of the child
ReturnCode(out) == IF out = "ok" THEN 0 ELSE 1

\* A dispatcher that does not look at the exit code.
CommandResultAnyCode(returncode, stdout, stderr) ==
    [status |-> "succeeded", stdout |-> stdout, stderr |-> stderr]

\* What the run_command branch returns for a finished child
CommandResult(returncode, stdout, stderr) ==
    IF returncode = 0
    THEN [status |-> "succeeded", stdout |-> stdout, stderr |-> stderr]
    ELSE [status |-> "failed", stdout |-> stdout, stderr |-> stderr,
          error |-> "Command failed with exit code " \o ToString(returncode)]

\* action == "run_command": subprocess.run(command, shell=True, ...); no
\* policy and no sandbox is consulted on this path, and no timeout is given.
RunCommand(step, out) ==
    LET command == Get(step, "command", None)
        fx == <<Effect("subprocess", command)>>
    IN  IF Falsy(command)
        THEN Returns([status |-> "failed",
                      error |-> "run_command action requires a 'command'"], <<>>)
        ELSE IF WaitsForever(NoTimeout, out) THEN Blocks(fx)
        ELSE IF out = "raise" THEN Raises("subprocess.run failed", fx)
        ELSE Returns(CommandResult(ReturnCode(out),
                                   IF out = "ok" THEN "output" ELSE "",
                                   IF out = "ok" THEN "" ELSE "it failed"), fx)

\* A dispatcher that hands an action it does not know to the shell.
UnknownActionRunsIt(action) ==
    Returns([status |-> "succeeded", stdout |-> "output", stderr |-> ""],
            <<Effect("subprocess", action)>>)

\* The final else of _execute_step_logic
UnknownAction(action) ==
    Returns([status |-> "failed", error |-> "Unknown action: " \o action], <<>>)

\* PlanExecutor._execute_step_logic
_execute_step_logic(step, out) ==
    LET action == Get(step, "action", None)
    IN  IF Falsy(action)
        THEN Returns([status |-> "failed", error |-> "Step is missing 'action' field."], <<>>)
        ELSE IF action = "human_feedback" THEN HumanFeedback(step, out)
        ELSE IF action = "modify_code" THEN ModifyCode(step, out)
        ELSE IF action = "verify_code" THEN VerifyCode(step, out)
        ELSE IF action = "run_command" THEN RunCommand(step, out)
        ELSE UnknownAction(action)

\* execute_step without its try/except: what the handler raised is lost and
\* the caller gets no result.
execute_step_uncaught(step, out) == _execute_step_logic(step, out).ret

\* PlanExecutor.execute_step: the try/except around _execute_step_logic
execute_step(step, out) ==
    LET r == _execute_step_logic(step, out)
    IN  IF r.exc # NoExc
        THEN [status |-> "failed",
              error |-> "Unhandled exception in executor: " \o r.exc]
        ELSE r.ret

\* ------------------------------------------------------------- paths

\* A path is the tuple of its components below "/"; a path argument is what
\* the caller wrote: the segments between the slashes, and whether it began
\* with a slash.
RelPath(segs) == [abs |-> FALSE, segs |-> segs]

AbsPath(segs) == [abs |-> TRUE, segs |-> segs]

\* FilesTool._root and ShellTool._sandbox_root, resolved by the constructors
Root == <<"work", "sandbox">>

\* A symbolic link inside the root that leads out of it, where there is one
LinkPath == <<"work", "sandbox", "link">>

LinkTarget == <<"etc">>

\* pathlib drops empty and "." segments when it parses a path; ".." stays.
Parse(segs) == SelectSeq(segs, LAMBDA c : c # "." /\ c # "")

\* self._root / relative_path: an absolute right operand replaces the left one
JoinPath(root, p) == IF p.abs THEN Parse(p.segs) ELSE root \o Parse(p.segs)

Parent(p) == SubSeq(p, 1, Len(p) - 1)

LinkSources(links) == {l[1] : l \in links}

TargetOf(links, p) == (CHOOSE l \in links : l[1] = p)[2]

\* Path.resolve(): component by component; ".." leaves the directory reached
\* so far ("/" is its own parent) and a symbolic link is replaced by its
\* target.
RECURSIVE Walk(_, _, _)
Walk(links, reached, rest) ==
    IF rest = <<>> THEN reached
    ELSE IF Head(rest) = ".."
    THEN Walk(links, IF reached = <<>> THEN reached ELSE Parent(reached), Tail(rest))
    ELSE IF Append(reached, Head(rest)) \in LinkSources(links)
    THEN Walk(links, TargetOf(links, Append(reached, Head(rest))), Tail(rest))
    ELSE Walk(links, Append(reached, Head(rest)), Tail(rest))

PathResolve(links, p) == Walk(links, <<>>, p)

\* target.relative_to(root) does not raise ValueError: root's components
\* begin target's.
IsUnder(root, target) ==
    /\ Len(target) >= Len(root)
    /\ SubSeq(target, 1, Len(root)) = root

Prefixes(p) == {SubSeq(p, 1, n) : n \in 0..Len(p)}

\* ------------------------------------------------------------- FilesTool

EscapeError == "Attempt to escape sandbox root"

\* A _resolve that tests the joined path without resolving it.
_resolve_unresolved(disk, relative_path) ==
    LET target == JoinPath(Root, relative_path)
    IN  IF IsUnder(Root, target)
        THEN [exc |-> NoExc, path |-> target]
        ELSE [exc |-> EscapeError, path |-> <<>>]

\* FilesTool._resolve on a disk with the symbolic links disk.links
_resolve(disk, relative_path) ==
    LET target == PathResolve(disk.links, JoinPath(Root, relative_path))
    IN  IF IsUnder(Root, target)
        THEN [exc |-> NoExc, path |-> target]
        ELSE [exc |-> EscapeError, path |-> <<>>]

Touch(op, p) == [op |-> op, path |-> p]

\* What a FilesTool call did: the outcome of _resolve, what the call raised,
\* every path it read, created or wrote, and the disk it left.
FilesDone(target, exc_, touches, disk) ==
    [target |-> target, exc |-> exc_, touched |-> touches, disk |-> disk]

\* FilesTool.read
read(disk, relative_path) ==
    LET target == _resolve(disk, relative_path)
    IN  IF target.exc # NoExc THEN FilesDone(target, target.exc, {}, disk)
        ELSE IF target.path \in disk.files
        THEN FilesDone(target, NoExc, {Touch("read_text", target.path)}, disk)
        ELSE FilesDone(target,
                       IF target.path \in disk.dirs THEN "Is a directory"
                       ELSE "No such file or directory", {}, disk)

\* FilesTool.write: path.parent.mkdir(parents=True, exist_ok=True) creates
\* every missing directory down to the parent and fails on a file in their
\* place; path.write_text fails on a directory.
write(disk, relative_path) ==
    LET target == _resolve(disk, relative_path)
        missing == Prefixes(Parent(target.path)) \ disk.dirs
        made == [disk EXCEPT !.dirs = @ \cup missing]
        mkdirs == {Touch("mkdir", d) : d \in missing}
    IN  IF target.exc # NoExc THEN FilesDone(target, target.exc, {}, disk)
        ELSE IF Prefixes(Parent(target.path)) \cap disk.files # {}
        THEN FilesDone(target, "Not a directory", {}, disk)
        ELSE IF target.path \in disk.dirs
        THEN FilesDone(target, "Is a directory", mkdirs, made)
        ELSE FilesDone(target, NoExc,
                       mkdirs \cup {Touch("write_text", target.path)},
                       [made EXCEPT !.files = @ \cup {target.path}])

\* Path arguments: ".", "", "sub/file.txt", "file.txt", "sub/../file.txt",
\* "..", "../../etc/passwd", "link/passwd", "/etc/passwd",
\* "/work/sandbox/file.txt".
PathArgs ==
    { RelPath(<<".">>), RelPath(<<>>), RelPath(<<"sub", "file.txt">>),
      RelPath(<<"file.txt">>), RelPath(<<"sub", "..", "file.txt">>),
      RelPath(<<"..">>), RelPath(<<"..", "..", "etc", "passwd">>),
      RelPath(<<"link", "passwd">>), AbsPath(<<"etc", "passwd">>),
      AbsPath(<<"work", "sandbox", "file.txt">>) }

\* The disks a FilesTool can be constructed on (the constructor does not look
\* at the disk): the root is a directory, with or without the link; the root
\* is missing; the root and its parent are missing.
Outside == [dirs |-> {<<>>, <<"etc">>}, files |-> {<<"etc", "passwd">>}, links |-> {}]

Disks ==
    { [Outside EXCEPT !.dirs = @ \cup {<<"work">>, Root}],
      [Outside EXCEPT !.dirs = @ \cup {<<"work">>, Root},
                      !.links = {<<LinkPath, LinkTarget>>}],
      [Outside EXCEPT !.dirs = @ \cup {<<"work">>}],
      Outside }

\* ------------------------------------------------------------- policies

AllowListPolicy(allowed_binaries) == [kind |-> "AllowListPolicy", _allowed |-> allowed_binaries]

DenyAllPolicy == [kind |-> "DenyAllPolicy", _allowed |-> {}]

\* An allow-list that looks for an allowed binary anywhere in the command.
is_allowed_anywhere(policy, command) ==
    /\ policy.kind = "AllowListPolicy"
    /\ \E i \in 1..Len(command) : command[i] \in policy._allowed

\* AllowListPolicy.is_allowed and DenyAllPolicy.is_allowed
is_allowed(policy, command) ==
    IF policy.kind = "DenyAllPolicy" THEN FALSE
    ELSE IF command = <<>> THEN FALSE
    ELSE command[1] \in policy._allowed

Policies ==
    { AllowListPolicy({"git"}), AllowListPolicy({"git", "ls"}),
      AllowListPolicy({}), DenyAllPolicy }

\* Commands as token sequences
Commands ==
    { <<>>, <<"git", "status">>, <<"rm", "-rf", "/">>, <<"ls">>,
      <<"sudo", "git", "push">> }

\* ------------------------------------------------------------- ShellTool

\* The default of the timeout parameter of ShellTool.run, in seconds
DefaultTimeout == 60

Text(t) == [isstr |-> TRUE, text |-> t]

Tokens(s) == [isstr |-> FALSE, parts |-> s]

\* shlex.split on the command lines of CommandLines
shlex_split(t) ==
    CASE t = "" -> [exc |-> NoExc, tokens |-> <<>>]
      [] t = "   " -> [exc |-> NoExc, tokens |-> <<>>]
      [] t = "git status" -> [exc |-> NoExc, tokens |-> <<"git", "status">>]
      [] t = "rm -rf /" -> [exc |-> NoExc, tokens |-> <<"rm", "-rf", "/">>]
      [] t = "git status; rm -rf /"
           -> [exc |-> NoExc, tokens |-> <<"git", "status;", "rm", "-rf", "/">>]
      [] t = "ls 'a b'" -> [exc |-> NoExc, tokens |-> <<"ls", "a b">>]
      [] t = "echo 'oops" -> [exc |-> "No closing quotation", tokens |-> <<>>]

CommandLines ==
    { Text(""), Text("   "), Text("git status"), Text("rm -rf /"),
      Text("git status; rm -rf /"), Text("ls 'a b'"), Text("echo 'oops") }
    \cup {Tokens(c) : c \in Commands}

Asked(command, answer) == [command |-> command, answer |-> answer]

Spawn(args, shell, cwd, timeout) ==
    [args |-> args, shell |-> shell, cwd |-> cwd, timeout |-> timeout]

\* What a ShellTool.run call did: what it raised, what it asked the policy,
\* the subprocesses it started and the exit code it returned.
ShellDone(exc_, asked, spawned, returncode) ==
    [exc |-> exc_, asked |-> asked, spawned |-> spawned, returncode |-> returncode]

\* subprocess.run(command_tuple, ..., timeout=timeout, shell=False)
subprocess_run(asked, spawned, out) ==
    IF out = "ok" THEN ShellDone(NoExc, asked, spawned, 0)
    ELSE IF out = "fail" THEN ShellDone(NoExc, asked, spawned, 1)
    ELSE IF out = "raise" THEN ShellDone("No such file or directory", asked, spawned, -1)
    ELSE ShellDone("timed out after 60.0 seconds", asked, spawned, -1)

\* A run that starts the command without asking the policy.
run_unchecked(policy, command, out) ==
    LET split == IF command.isstr THEN shlex_split(command.text)
                 ELSE [exc |-> NoExc, tokens |-> command.parts]
    IN  IF split.exc # NoExc THEN ShellDone(split.exc, <<>>, <<>>, -1)
        ELSE subprocess_run(<<>>, <<Spawn(split.tokens, FALSE, Root, DefaultTimeout)>>, out)

\* ShellTool.run with the default timeout
run(policy, command, out) ==
    LET split == IF command.isstr THEN shlex_split(command.text)
                 ELSE [exc |-> NoExc, tokens |-> command.parts]
        command_tuple == split.tokens
        answer == is_allowed(policy, command_tuple)
    IN  IF split.exc # NoExc THEN ShellDone(split.exc, <<>>, <<>>, -1)
        ELSE IF command_tuple = <<>>
        THEN ShellDone("Shell command cannot be empty", <<>>, <<>>, -1)
        ELSE IF ~answer
        THEN ShellDone("Command is rejected by the execution policy",
                       <<Asked(command_tuple, answer)>>, <<>>, -1)
        ELSE subprocess_run(<<Asked(command_tuple, answer)>>,
                            <<Spawn(command_tuple, FALSE, Root, DefaultTimeout)>>, out)

\* ------------------------------------------------------------- FiniteStateMachine

Transition(source, target, guard) == [source |-> source, target |-> target, guard |-> guard]

\* The name of the one guard the machines below use; what it returns when
\* can_transition calls it is the environment's choice.
Guard == "guard"

\* The step lifecycle
Lifecycle ==
    [name |-> "lifecycle",
     _states |-> {"pending", "running", "succeeded", "failed"},
     _transitions |-> << Transition("pending", "running", None),
                         Transition("running", "succeeded", None),
                         Transition("running", "failed", None) >>,
     initial |-> "pending"]

\* The step lifecycle with a guard on success
GuardedLifecycle ==
    [Lifecycle EXCEPT !.name = "guarded lifecycle",
                      !._transitions[2] = Transition("running", "succeeded", Guard)]

\* The machine _bootstrap builds
CliMachine ==
    [name |-> "cli",
     _states |-> {"idle", "executing", "done"},
     _transitions |-> << Transition("idle", "executing", None),
                         Transition("executing", "done", None) >>,
     initial |-> "idle"]

Machines == {Lifecycle, GuardedLifecycle, CliMachine}

\* The targets a caller may name: every state of a machine and a name that
\* no machine has.
TargetNames == {"pending", "running", "succeeded", "failed", "idle", "executing", "done", "archived"}

\* A can_transition that looks at the transitions of every state.
can_transition_from_anywhere(m, current, target, guard_value) ==
    \E i \in 1..Len(m._transitions) :
       /\ m._transitions[i].target = target
       /\ (m._transitions[i].guard = None \/ guard_value)

\* FiniteStateMachine.can_transition; guard_value is what a guard returns
can_transition(m, current, target, guard_value) ==
    \E i \in 1..Len(m._transitions) :
       /\ m._transitions[i].source = current
       /\ m._transitions[i].target = target
       /\ (m._transitions[i].guard = None \/ guard_value)

\* A transition that ignores an invalid request.
transition_or_ignore(m, current, target, guard_value) ==
    IF ~can_transition(m, current, target, guard_value)
    THEN [exc |-> NoExc, _current |-> current]
    ELSE [exc |-> NoExc, _current |-> target]

\* FiniteStateMachine.transition
transition(m, current, target, guard_value) ==
    IF ~can_transition(m, current, target, guard_value)
    THEN [exc |-> "Invalid transition from " \o current \o " to " \o target,
          _current |-> current]
    ELSE [exc |-> NoExc, _current |-> target]

\* ------------------------------------------------------------- task manager

\* completed_at of a task that is not done (None); the clock starts after it
NoTime == 0

\* id values and statuses given to update_task_status, a description and a
\* project given to add_task
TaskIds == 1..(MaxCalls + 1)

Statuses == {"in_progress", "done", "failed"}

Description == "write the report"

Project == "smith"

\* The processes that use one tasks file at the same time
Procs == {1, 2}

\* A path at which there is no file, and a tasks file holding the tasks
NoFile == [exists |-> FALSE, tasks |-> <<>>]

TasksFile(tasks) == [exists |-> TRUE, tasks |-> tasks]

\* get_tasks with the lock free and a file that save_tasks wrote: a missing
\* file is created holding the empty list.
get_tasks(file) ==
    IF ~file.exists THEN [file |-> TasksFile(<<>>), tasks |-> <<>>]
    ELSE [file |-> file, tasks |-> file.tasks]

\* save_tasks with the lock free
save_tasks(tasks, file) == TasksFile(tasks)

\* An id source that looks at the first task only.
FirstId(tasks) == IF tasks = <<>> THEN 0 ELSE Get(Head(tasks), "id", 0)

\* max([task.get("id", 0) for task in tasks], default=0)
RECURSIVE MaxId(_)
MaxId(tasks) ==
    IF tasks = <<>> THEN 0
    ELSE LET rest == MaxId(Tail(tasks))
             id == Get(Head(tasks), "id", 0)
         IN  IF id > rest THEN id ELSE rest

\* add_task, the task it builds from the tasks it read; t is the first
\* reading of the clock, the next ones follow it
new_task(tasks, description, project, t) ==
    [id |-> MaxId(tasks) + 1,
     description |-> description,
     status |-> "pending",
     project |-> project,
     created_at |-> t,
     updated_at |-> t + 1,
     completed_at |-> NoTime,
     history |-> <<[timestamp |-> t + 2, action |-> "created"]>>]

add_task(description, project, file, t) ==
    LET got == get_tasks(file)
        new == new_task(got.tasks, description, project, t)
    IN  [file |-> save_tasks(Append(got.tasks, new), got.file),
         exc |-> NoExc, ret |-> <<new>>]

\* An update that rewrites every task of the ledger with the new status.
update_every_task(task_id, new_status, file, t) ==
    LET got == get_tasks(file)
        after == [i \in 1..Len(got.tasks) |-> [got.tasks[i] EXCEPT !.status = new_status]]
    IN  [file |-> save_tasks(after, got.file), exc |-> NoExc, ret |-> after]

\* update_task_status; t is the first reading of the clock
update_task_status(task_id, new_status, file, t) ==
    LET got == get_tasks(file)
        tasks == got.tasks
        hits == {i \in 1..Len(tasks) : tasks[i].id = task_id}
    IN  IF hits = {}
        THEN [file |-> got.file,
              exc |-> "Task with ID " \o ToString(task_id) \o " not found.",
              ret |-> <<>>]
        ELSE LET i == CHOOSE h \in hits : \A k \in hits : h <= k
                 task == [tasks[i] EXCEPT
                             !.status = new_status,
                             !.updated_at = t,
                             !.history = Append(@, [timestamp |-> t + 1,
                                                    action |-> "status changed to "
                                                               \o new_status]),
                             !.completed_at = IF new_status = "done" THEN t + 2 ELSE @]
             IN  [file |-> save_tasks([tasks EXCEPT ![i] = task], got.file),
                  exc |-> NoExc, ret |-> <<task>>]

\* ------------------------------------------------------------- FileLock

\* A tasks file that does not hold JSON
CorruptFile == [exists |-> TRUE, tasks |-> <<>>, corrupt |-> TRUE]

Corrupt(file) == "corrupt" \in DOMAIN file

\* An open that creates the file whether or not it exists (no O_EXCL).
os_open_shared(lock, p) == [lock |-> p, exc |-> NoExc]

\* os.open(lock_path, O_CREAT | O_EXCL | O_RDWR) by process p: lock is the
\* process whose open created the lock file, 0 when there is no such file.
os_open(lock, p) ==
    IF lock = 0 THEN [lock |-> p, exc |-> NoExc]
    ELSE [lock |-> lock, exc |-> "FileExistsError"]

\* os.remove(lock_path); FileLock.release suppresses its exception.
os_remove(lock) == 0

\* ------------------------------------------------------------- state

VARIABLES
    mode,           \* MCPGateway.mode
    analyzed,       \* MCPGateway._analyzed
    prompt,         \* DynamicPlanner.prompt, as _heuristic_step reads it
    task_complete,  \* DynamicPlanner._task_complete
    step_counter,   \* DynamicPlanner._step_counter
    history,        \* DynamicPlanner.history
    pc,             \* where run_agent_in_thread is
    next_step,      \* its local next_step
    result,         \* its local result
    exc,            \* the exception it is handling, NoExc if none
    queue,          \* the queue.Queue shared by worker and Observer
    plan,           \* CockpitUI.plan
    step_status,    \* CockpitUI.step_status
    current_step,   \* CockpitUI.current_step
    final_status,   \* CockpitUI.final_status
    log,            \* CockpitUI.log_area.text, one entry per appended message
    ui,             \* where the application is: in the loop of _process_events
                    \* ("loop"), past it ("done"), or gone ("exited")
    enqueued,       \* history variable: every event put on the queue, in order
    applied,        \* history variable: every event the Observer took, in order
    exec_log,       \* history variable: one record per execute_step call that
                    \* returned
    gateway_failed, \* history variable: generate_step answered from its except
                    \* clause
    fs,             \* the disk a FilesTool works on: directories, files, links
    touched,        \* history variable: every path a FilesTool call read,
                    \* created or wrote
    files_call,     \* the last FilesTool call and what it did
    _policy,        \* ShellTool._policy
    shell_call,     \* the last ShellTool.run call and what it did
    policy_call,    \* the last is_allowed call made on the policy directly
    machine,        \* FiniteStateMachine._states and ._transitions
    _current,       \* FiniteStateMachine._current
    fsm_call,       \* the last FiniteStateMachine.transition call
    tasks_file,     \* the tasks file of the task manager
    now,            \* the next reading of datetime.now
    ledger_call,    \* the last add_task or update_task_status call
    planner_call,   \* the last call made on a DynamicPlanner directly
    lock_file,      \* the lock file of the tasks file: the process whose
                    \* os.open created it, 0 when there is no such file
    procs           \* the processes that use the tasks file at the same
                    \* time: where each is and what it holds

planner_vars ==
    <<mode, analyzed, prompt, task_complete, step_counter, history, gateway_failed>>
worker_vars == <<pc, next_step, result, exc>>
observer_vars == <<plan, step_status, current_step, final_status, log, ui, applied>>
cockpit_vars == <<planner_vars, worker_vars, observer_vars, queue, enqueued, exec_log>>
files_vars == <<fs, touched, files_call>>
shell_vars == <<_policy, shell_call, policy_call>>
fsm_vars == <<machine, _current, fsm_call>>
ledger_vars == <<tasks_file, now, ledger_call>>
lock_vars == <<lock_file, procs>>
tool_vars == <<files_vars, shell_vars, fsm_vars, ledger_vars, planner_call, lock_vars>>
vars == <<cockpit_vars, tool_vars>>

NoResult == <<>>

NoCall == [op |-> "none"]

\* No FilesTool, ShellTool or FiniteStateMachine is at work.
FilesIdle == fs = Outside /\ touched = {} /\ files_call = NoCall

ShellIdle == _policy = DenyAllPolicy /\ shell_call = NoCall /\ policy_call = NoCall

FsmIdle == machine = CliMachine /\ _current = CliMachine.initial /\ fsm_call = NoCall

LedgerIdle == tasks_file = NoFile /\ now = 1 /\ ledger_call = NoCall

\* No caller uses a DynamicPlanner directly.
PlannerIdle == planner_call = NoCall

\* A process that is in no call of the task manager
AtRest ==
    [pc |-> "rest", call |-> "none", tasks |-> <<>>, fd |-> FALSE, exc |-> NoExc,
     calls |-> 0, returned |-> 0]

\* There is no lock file and every process is at rest.
LockIdle == lock_file = 0 /\ procs = [p \in Procs |-> AtRest]

\* The planner, the worker and the Observer before the worker thread starts
CockpitStart ==
    /\ analyzed = FALSE
    /\ gateway_failed = FALSE
    /\ task_complete = FALSE
    /\ step_counter = 0
    /\ history = <<>>
    /\ pc = "start"
    /\ next_step = <<>>
    /\ result = NoResult
    /\ exc = NoExc
    /\ queue = <<>>
    /\ plan = <<>>
    /\ step_status = <<>>
    /\ current_step = NoStep
    /\ final_status = None
    /\ log = <<>>
    /\ ui = "loop"
    /\ enqueued = <<>>
    /\ applied = <<>>
    /\ exec_log = <<>>

Init ==
    /\ mode \in Modes
    /\ prompt \in Prompts
    /\ CockpitStart
    /\ FilesIdle /\ ShellIdle /\ FsmIdle /\ LedgerIdle /\ PlannerIdle /\ LockIdle

\* ------------------------------------------------------------- worker

\* A put that places the event at the head of the queue (a LIFO queue).
PutFirst(event) ==
    /\ queue' = <<event>> \o queue
    /\ enqueued' = Push(enqueued, event)

\* A put on a queue of maxsize MaxLag: it waits while the queue is full.
PutWhenRoom(event) ==
    /\ Len(queue) < MaxLag
    /\ queue' = Append(queue, event)
    /\ enqueued' = Push(enqueued, event)

\* event_queue.put(event): never blocks (the queue has no maxsize)
Put(event) ==
    /\ queue' = Append(queue, event)
    /\ enqueued' = Push(enqueued, event)

\* An exception leaves the try block for the except clause.
Raise(msg) ==
    /\ pc' = "except"
    /\ exc' = msg

\* planner = DynamicPlanner(...); executor = PlanExecutor(...): the
\* ProjectVerifier constructor raises FileNotFoundError unless project_root is
\* a directory.
WorkerConstruct ==
    /\ pc = "start"
    /\ \E isdir \in BOOLEAN :
          IF isdir THEN pc' = "loop" /\ exc' = exc
          ELSE Raise("Project directory not found")
    /\ UNCHANGED <<planner_vars, next_step, result, observer_vars, tool_vars, queue,
                   enqueued, exec_log>>

\* A planner that raises when the gateway gives it nothing to do.
PlannerAnswerOrRaise(r) ==
    IF EndsTask(r) THEN
        /\ task_complete' = TRUE
        /\ Raise("no step to plan")
        /\ UNCHANGED <<step_counter, next_step>>
    ELSE
        /\ step_counter' = NextCounter(step_counter)
        /\ UNCHANGED task_complete
        /\ IF ParametersAreMapping(r)
           THEN /\ next_step' = _create_step_from_llm_response(step_counter', r)
                /\ pc' = "announce"
                /\ exc' = exc
           ELSE /\ Raise("argument after ** must be a mapping")
                /\ UNCHANGED next_step

\* DynamicPlanner.get_next_step on the answer r of the gateway; the worker's
\* `if not next_step: break` follows a None.
PlannerAnswer(r) ==
    IF EndsTask(r) THEN
        /\ task_complete' = TRUE
        /\ pc' = "finally"
        /\ UNCHANGED <<step_counter, next_step, exc>>
    ELSE
        /\ step_counter' = NextCounter(step_counter)
        /\ UNCHANGED task_complete
        /\ IF ParametersAreMapping(r)
           THEN /\ next_step' = _create_step_from_llm_response(step_counter', r)
                /\ pc' = "announce"
                /\ exc' = exc
           ELSE /\ Raise("argument after ** must be a mapping")
                /\ UNCHANGED next_step

\* `while not planner.is_finished(): next_step = planner.get_next_step()`.
\* bounded: the run is one of at most MaxSteps steps.
WorkerGetNextStep(bounded) ==
    /\ pc = "loop"
    /\ IF task_complete THEN
          /\ pc' = "finally"
          /\ UNCHANGED <<analyzed, gateway_failed, task_complete, step_counter,
                         next_step, exc>>
       ELSE
          \/ \* _build_system_prompt: the navigator raises (an unreadable file)
             /\ Raise("cannot read the project")
             /\ UNCHANGED <<analyzed, gateway_failed, task_complete, step_counter,
                            next_step>>
          \/ \E i \in 1..Len(generate_step(mode, analyzed, prompt)) :
                LET r == generate_step(mode, analyzed, prompt)[i]
                IN  /\ bounded => (EndsTask(r) \/ step_counter < MaxSteps)
                    /\ analyzed' = (analyzed \/ mode = "local")
                    /\ gateway_failed' = (gateway_failed \/ FromExceptClause(r))
                    /\ PlannerAnswer(r)
    /\ UNCHANGED <<mode, prompt, history, result, observer_vars, tool_vars, queue,
                   enqueued, exec_log>>

\* event_queue.put(("NEW_STEP", next_step))
WorkerAnnounce ==
    /\ pc = "announce"
    /\ Put(<<"NEW_STEP", next_step>>)
    /\ pc' = "start_step"
    /\ UNCHANGED <<planner_vars, next_step, result, exc, observer_vars, tool_vars, exec_log>>

\* A worker that reports the planner's counter instead of the step's own id.
WorkerStartStepByCounter ==
    /\ pc = "start_step"
    /\ Put(<<"STEP_STARTED", step_counter>>)
    /\ pc' = "execute"
    /\ UNCHANGED <<planner_vars, next_step, result, exc, observer_vars, tool_vars, exec_log>>

\* step_id = next_step.get("id"); event_queue.put(("STEP_STARTED", step_id))
WorkerStartStep ==
    /\ pc = "start_step"
    /\ Put(<<"STEP_STARTED", next_step.id>>)
    /\ pc' = "execute"
    /\ UNCHANGED <<planner_vars, next_step, result, exc, observer_vars, tool_vars, exec_log>>

\* result = executor.execute_step(next_step)
WorkerExecute ==
    /\ pc = "execute"
    /\ \E out \in Outcomes \cup {Hang} :
          LET r == _execute_step_logic(next_step, out)
          IN  IF r.exc = Blocked THEN
                 \* execute_step never returns: the worker thread waits for ever
                 /\ pc' = "hung"
                 /\ UNCHANGED <<result, exec_log>>
              ELSE
                 /\ out # Hang
                 /\ result' = execute_step(next_step, out)
                 /\ exec_log' = Push(exec_log, [step |-> next_step, outcome |-> out,
                                                 raised |-> r.exc # NoExc,
                                                 effects |-> r.effects,
                                                 result |-> result'])
                 /\ pc' = "record"
    /\ UNCHANGED <<planner_vars, next_step, exc, observer_vars, tool_vars, queue, enqueued>>

\* A planner that takes a succeeded result for a reason to go on.
record_step_result_or_resume(res) ==
    /\ history' = Push(history, res)
    /\ task_complete' = (Get(res, "status", None) = "failed")

\* DynamicPlanner.record_step_result
record_step_result(res) ==
    /\ history' = Push(history, res)
    /\ task_complete' = (task_complete \/ Get(res, "status", None) = "failed")

\* A worker that writes the outcome into the step it announced.
WorkerRecordIntoStep ==
    /\ pc = "record"
    /\ next_step' = Merge(next_step, [status |-> Get(result, "status", "failed")])
    /\ result' = Merge(result, [step |-> next_step'])
    /\ record_step_result(result')
    /\ pc' = "finish_step"
    /\ UNCHANGED <<mode, analyzed, prompt, step_counter, gateway_failed, exc,
                   observer_vars, tool_vars, queue, enqueued, exec_log>>

\* result["step"] = next_step; planner.record_step_result(result)
WorkerRecord ==
    /\ pc = "record"
    /\ result' = Merge(result, [step |-> next_step])
    /\ record_step_result(result')
    /\ pc' = "finish_step"
    /\ UNCHANGED <<mode, analyzed, prompt, step_counter, gateway_failed, next_step, exc,
                   observer_vars, tool_vars, queue, enqueued, exec_log>>

\* err_msg = result.get("error", result.get("stderr", "")) or ""
ErrMsg(res) ==
    LET e == Get(res, "error", Get(res, "stderr", ""))
    IN  IF Falsy(e) THEN "" ELSE e

\* A loop without the halt test.
NeverHalts(status) == FALSE

\* `if status != "succeeded": break`
HaltsOn(status) == status # "succeeded"

\* A worker that halts on a failed step before it reports it.
WorkerFinishStepHaltFirst ==
    /\ pc = "finish_step"
    /\ LET status == Get(result, "status", "failed")
       IN  IF HaltsOn(status)
           THEN pc' = "finally" /\ UNCHANGED <<queue, enqueued>>
           ELSE /\ Put(<<"STEP_FINISHED", next_step.id, status, ErrMsg(result)>>)
                /\ pc' = "loop"
    /\ UNCHANGED <<planner_vars, next_step, result, exc, observer_vars, tool_vars, exec_log>>

\* event_queue.put(("STEP_FINISHED", step_id, status, err_msg)), then the halt
\* test
WorkerFinishStep ==
    /\ pc = "finish_step"
    /\ LET status == Get(result, "status", "failed")
       IN  /\ Put(<<"STEP_FINISHED", next_step.id, status, ErrMsg(result)>>)
           /\ pc' = IF HaltsOn(status) THEN "finally" ELSE "loop"
    /\ UNCHANGED <<planner_vars, next_step, result, exc, observer_vars, tool_vars, exec_log>>

\* An except clause that only logs: the worker dies without a failed event.
WorkerExceptSilent ==
    /\ pc = "except"
    /\ pc' = "finally"
    /\ UNCHANGED <<planner_vars, next_step, result, exc, observer_vars, tool_vars, queue,
                   enqueued, exec_log>>

\* except Exception as exc: event_queue.put(("AGENT_FINISHED", "failed", str(exc)))
WorkerExcept ==
    /\ pc = "except"
    /\ Put(<<"AGENT_FINISHED", "failed", exc>>)
    /\ pc' = "finally"
    /\ UNCHANGED <<planner_vars, next_step, result, exc, observer_vars, tool_vars, exec_log>>

\* finally: event_queue.put(("AGENT_FINISHED", "succeeded"))
WorkerFinally ==
    /\ pc = "finally"
    /\ Put(<<"AGENT_FINISHED", "succeeded">>)
    /\ pc' = "done"
    /\ UNCHANGED <<planner_vars, next_step, result, exc, observer_vars, tool_vars, exec_log>>

\* ------------------------------------------------------------- Observer

\* A log window that shows a message only when no other event is pending.
_append_log_when_idle(l, message) ==
    IF message = "" \/ Len(queue) > 1 THEN l ELSE Push(l, message)

\* CockpitUI._append_log
_append_log(l, message) == IF message = "" THEN l ELSE Push(l, message)

\* A status map that keeps the first status written for an id.
SetStatusOnce(st, id, status) ==
    IF id \in DOMAIN st THEN st ELSE Merge(st, (id :> status))

\* self.step_status[step_id] = status
SetStatus(st, id, status) == Merge(st, (id :> status))

\* An event loop that no event ends.
NeverBreak(event_type) == FALSE

\* The break that follows AGENT_FINISHED in _process_events
Break(event_type) == event_type = "AGENT_FINISHED"

\* The view model of a CockpitUI that has applied nothing
FreshView ==
    [plan |-> <<>>, step_status |-> <<>>, current_step |-> NoStep,
     final_status |-> None, log |-> <<>>, ui |-> "loop"]

\* The view model of the running CockpitUI
View ==
    [plan |-> plan, step_status |-> step_status, current_step |-> current_step,
     final_status |-> final_status, log |-> log, ui |-> ui]

\* The body of the loop of _process_events for one event taken from the
\* queue: the view after the event was applied to the view v.
ApplyEvent(v, event) ==
    LET event_type == event[1]
        after ==
            IF event_type = "AGENT_FINISHED" THEN
                [v EXCEPT !.final_status = event[2],
                          !.current_step = NoStep,
                          !.log = IF Len(event) > 2 THEN _append_log(v.log, event[3])
                                  ELSE v.log]
            ELSE IF event_type = "NEW_STEP" THEN
                [v EXCEPT !.plan = Push(v.plan, event[2]),
                          !.step_status = SetStatus(v.step_status, event[2].id, "pending")]
            ELSE IF event_type = "STEP_STARTED" THEN
                [v EXCEPT !.current_step = event[2],
                          !.step_status = SetStatus(v.step_status, event[2], "running")]
            ELSE IF event_type = "TOOL_OUTPUT" THEN
                [v EXCEPT !.log = _append_log(v.log, event[3])]
            ELSE IF event_type = "STEP_FINISHED" THEN
                [v EXCEPT !.step_status =
                              SetStatus(v.step_status, event[2],
                                        IF event[3] = "succeeded" THEN "success" ELSE "failed"),
                          !.log = _append_log(v.log, event[4])]
            ELSE v
    IN  [after EXCEPT !.ui = IF Break(event_type) THEN "done" ELSE v.ui]

\* One pass of the loop of _process_events that finds an event: get_nowait
\* takes the head of the queue and the event is applied. (On queue.Empty the
\* loop sleeps and tries again, which changes nothing.)
ObserverPoll ==
    /\ ui = "loop"
    /\ queue # <<>>
    /\ LET after == ApplyEvent(View, Head(queue))
       IN  /\ queue' = Tail(queue)
           /\ applied' = Push(applied, Head(queue))
           /\ plan' = after.plan
           /\ step_status' = after.step_status
           /\ current_step' = after.current_step
           /\ final_status' = after.final_status
           /\ log' = after.log
           /\ ui' = after.ui
    /\ UNCHANGED <<planner_vars, worker_vars, enqueued, exec_log, tool_vars>>

\* _process_events run on a queue that already holds all of events: every
\* get_nowait finds the next one until the loop is left.
RECURSIVE Replay(_, _)
Replay(v, events) ==
    IF events = <<>> \/ v.ui # "loop" THEN v
    ELSE Replay(ApplyEvent(v, Head(events)), Tail(events))

\* A Ctrl-C binding that leaves the application only after the run is over.
InterruptAfterFinish ==
    /\ ui = "done"
    /\ ui' = "exited"
    /\ UNCHANGED <<planner_vars, worker_vars, queue, enqueued, exec_log, tool_vars,
                   plan, step_status, current_step, final_status, log, applied>>

\* Ctrl-C: the key binding calls app.exit(), run_async and ui.run return,
\* asyncio.run cancels the _process_events task if it still runs, and main
\* returns without joining the worker thread, which is a daemon thread.
Interrupt ==
    /\ ui \in {"loop", "done"}
    /\ ui' = "exited"
    /\ UNCHANGED <<planner_vars, worker_vars, queue, enqueued, exec_log, tool_vars,
                   plan, step_status, current_step, final_status, log, applied>>

\* ------------------------------------------------------------- tool calls

\* A caller reads a path through the FilesTool.
FilesRead ==
    /\ \E a \in PathArgs :
          LET d == read(fs, a)
          IN  /\ files_call' = [op |-> "read", arg |-> a, target |-> d.target,
                                exc |-> d.exc, touched |-> d.touched]
              /\ touched' = touched \cup d.touched
              /\ fs' = d.disk
    /\ UNCHANGED <<cockpit_vars, shell_vars, fsm_vars, ledger_vars, planner_call, lock_vars>>

\* A caller writes a path through the FilesTool.
FilesWrite ==
    /\ \E a \in PathArgs :
          LET d == write(fs, a)
          IN  /\ files_call' = [op |-> "write", arg |-> a, target |-> d.target,
                                exc |-> d.exc, touched |-> d.touched]
              /\ touched' = touched \cup d.touched
              /\ fs' = d.disk
    /\ UNCHANGED <<cockpit_vars, shell_vars, fsm_vars, ledger_vars, planner_call, lock_vars>>

\* A caller runs a command through the ShellTool; the child exits with 0 or
\* not, cannot be started, or never exits.
ShellRun ==
    /\ \E c \in CommandLines, out \in Outcomes \cup {Hang} :
          LET d == run(_policy, c, out)
          IN  shell_call' = [op |-> "run", command |-> c, out |-> out, exc |-> d.exc,
                             asked |-> d.asked, spawned |-> d.spawned,
                             returncode |-> d.returncode]
    /\ UNCHANGED <<cockpit_vars, files_vars, _policy, policy_call, fsm_vars, ledger_vars,
                   planner_call, lock_vars>>

\* A caller asks the policy about a command.
PolicyIsAllowed ==
    /\ \E c \in Commands :
          policy_call' = [op |-> "is_allowed", command |-> c,
                          answer |-> is_allowed(_policy, c)]
    /\ UNCHANGED <<cockpit_vars, files_vars, _policy, shell_call, fsm_vars, ledger_vars,
                   planner_call, lock_vars>>

\* A caller asks the machine to move to a target; guard_value is what the
\* guard returns if can_transition calls it.
FsmTransition ==
    /\ \E target \in TargetNames, guard_value \in BOOLEAN :
          LET d == transition(machine, _current, target, guard_value)
          IN  /\ fsm_call' = [op |-> "transition", before |-> _current,
                              target |-> target, guard_value |-> guard_value,
                              exc |-> d.exc]
              /\ _current' = d._current
    /\ UNCHANGED <<cockpit_vars, files_vars, shell_vars, machine, ledger_vars,
                   planner_call, lock_vars>>

\* A caller adds a task.
AddTask ==
    /\ now <= 3 * MaxCalls
    /\ LET d == add_task(Description, Project, tasks_file, now)
       IN  /\ ledger_call' = [op |-> "add_task", before |-> tasks_file,
                              exc |-> d.exc, ret |-> d.ret]
           /\ tasks_file' = d.file
    /\ now' = now + 3
    /\ UNCHANGED <<cockpit_vars, files_vars, shell_vars, fsm_vars, planner_call, lock_vars>>

\* A caller updates the status of a task. The clock is read only when the
\* task is found.
UpdateTaskStatus ==
    /\ now <= 3 * MaxCalls
    /\ \E task_id \in TaskIds, new_status \in Statuses :
          LET d == update_task_status(task_id, new_status, tasks_file, now)
          IN  /\ ledger_call' = [op |-> "update_task_status", task_id |-> task_id,
                                 new_status |-> new_status, before |-> tasks_file,
                                 at |-> now, exc |-> d.exc, ret |-> d.ret]
              /\ tasks_file' = d.file
              /\ now' = IF d.exc = NoExc THEN now + 3 ELSE now
    /\ UNCHANGED <<cockpit_vars, files_vars, shell_vars, fsm_vars, planner_call, lock_vars>>

\* ------------------------------------------------------------- specifications

Worker(bounded) ==
    \/ WorkerConstruct
    \/ WorkerGetNextStep(bounded)
    \/ WorkerAnnounce
    \/ WorkerStartStep
    \/ WorkerExecute
    \/ WorkerRecord
    \/ WorkerFinishStep
    \/ WorkerExcept
    \/ WorkerFinally

Next == Worker(TRUE) \/ ObserverPoll

\* Every run of at most MaxSteps steps, under every interleaving.
Spec == Init /\ [][Next]_vars

\* Runs of any length with the local heuristic gateway, under a fair
\* scheduler: the worker thread keeps running, the Observer loop keeps
\* polling, the Observer is never more than MaxLag events behind, and every
\* subprocess of the dispatcher exits.
InitLocal == Init /\ mode = "local"

WorkerLive == Len(queue) < MaxLag /\ Worker(FALSE) /\ pc' # "hung"

NextLive == WorkerLive \/ ObserverPoll

LiveSpec ==
    InitLocal /\ [][NextLive]_vars /\ WF_vars(WorkerLive) /\ WF_vars(ObserverPoll)

\* Every run of at most MaxSteps steps in which the user may press Ctrl-C at
\* any moment. The worker thread may still take steps before the process is
\* gone.
CancelNext == Next \/ Interrupt

CancelSpec == Init /\ [][CancelNext]_vars

\* The planner, the worker and the Observer of a run that is not looked at
CockpitIdle == mode = "local" /\ prompt = "other" /\ CockpitStart

\* Every sequence of read and write calls on a FilesTool, on every disk.
FilesInit ==
    /\ CockpitIdle /\ ShellIdle /\ FsmIdle /\ LedgerIdle /\ PlannerIdle /\ LockIdle
    /\ fs \in Disks
    /\ touched = {}
    /\ files_call = NoCall

FilesNext == FilesRead \/ FilesWrite

FilesSpec == FilesInit /\ [][FilesNext]_vars

\* Every sequence of run calls on a ShellTool and of is_allowed calls on its
\* policy, for every policy.
ShellInit ==
    /\ CockpitIdle /\ FilesIdle /\ FsmIdle /\ LedgerIdle /\ PlannerIdle /\ LockIdle
    /\ _policy \in Policies
    /\ shell_call = NoCall
    /\ policy_call = NoCall

ShellNext == ShellRun \/ PolicyIsAllowed

ShellSpec == ShellInit /\ [][ShellNext]_vars

\* Every sequence of transition calls on a newly constructed machine.
FsmInit ==
    /\ CockpitIdle /\ FilesIdle /\ ShellIdle /\ LedgerIdle /\ PlannerIdle /\ LockIdle
    /\ machine \in Machines
    /\ _current = machine.initial
    /\ fsm_call = NoCall

FsmNext == FsmTransition

FsmSpec == FsmInit /\ [][FsmNext]_vars

\* The steps and the events a producer can put on the queue of a CockpitUI:
\* the five event types of _process_events, for two step ids, and one event
\* of a type that it does not know.
PlanSteps == {[id |-> i, action |-> "run_command", description |-> "Run"] : i \in 1..2}

Events ==
    {<<"NEW_STEP", step>> : step \in PlanSteps}
    \cup {<<"STEP_STARTED", i>> : i \in 1..2}
    \cup {<<"TOOL_OUTPUT", 1, "output">>}
    \cup {<<"STEP_FINISHED", 1, "succeeded", "">>,
          <<"STEP_FINISHED", 1, "failed", "boom">>,
          <<"STEP_FINISHED", 2, "succeeded", "">>}
    \cup {<<"AGENT_FINISHED", "succeeded">>, <<"AGENT_FINISHED", "failed", "boom">>}
    \cup {<<"HEARTBEAT">>}

\* A producer puts an event on the queue.
Deliver ==
    /\ Len(enqueued) < MaxEvents
    /\ \E event \in Events : Put(event)
    /\ UNCHANGED <<planner_vars, worker_vars, observer_vars, exec_log, tool_vars>>

\* Every list of at most MaxEvents events, delivered to a new CockpitUI at
\* every pace.
ObserverInit == CockpitIdle /\ FilesIdle /\ ShellIdle /\ FsmIdle /\ LedgerIdle /\ PlannerIdle /\ LockIdle

ObserverNext == Deliver \/ ObserverPoll

ObserverSpec == ObserverInit /\ [][ObserverNext]_vars

\* Every sequence of add_task and update_task_status calls, one after the
\* other, on a tasks file that does not exist at first.
TaskInit ==
    /\ CockpitIdle /\ FilesIdle /\ ShellIdle /\ FsmIdle /\ PlannerIdle /\ LockIdle
    /\ tasks_file = NoFile
    /\ now = 1
    /\ ledger_call = NoCall

TaskNext == AddTask \/ UpdateTaskStatus

TaskSpec == TaskInit /\ [][TaskNext]_vars

\* The results a caller records in a planner
StepResults ==
    {[status |-> "succeeded", stdout |-> "output", step |-> step] : step \in PlanSteps}
    \cup {[status |-> "failed", error |-> "boom", step |-> step] : step \in PlanSteps}

\* A caller calls get_next_step on the planner, finished or not.
PlannerGetNextStep ==
    /\ IF task_complete THEN
          /\ planner_call' = [op |-> "get_next_step", queried |-> FALSE,
                              exc |-> NoExc, ret |-> <<>>]
          /\ UNCHANGED <<analyzed, gateway_failed, task_complete, step_counter>>
       ELSE
          \/ \* _build_system_prompt: the navigator raises
             /\ planner_call' = [op |-> "get_next_step", queried |-> FALSE,
                                 exc |-> "cannot read the project", ret |-> <<>>]
             /\ UNCHANGED <<analyzed, gateway_failed, task_complete, step_counter>>
          \/ \E i \in 1..Len(generate_step(mode, analyzed, prompt)) :
                LET r == generate_step(mode, analyzed, prompt)[i]
                    raises == ~EndsTask(r) /\ ~ParametersAreMapping(r)
                IN  /\ EndsTask(r) \/ step_counter < MaxSteps
                    /\ analyzed' = (analyzed \/ mode = "local")
                    /\ gateway_failed' = (gateway_failed \/ FromExceptClause(r))
                    /\ task_complete' = EndsTask(r)
                    /\ step_counter' = IF EndsTask(r) THEN step_counter
                                       ELSE NextCounter(step_counter)
                    /\ planner_call' =
                          [op |-> "get_next_step", queried |-> TRUE,
                           exc |-> IF raises THEN "argument after ** must be a mapping"
                                   ELSE NoExc,
                           ret |-> IF EndsTask(r) \/ raises THEN <<>>
                                   ELSE <<_create_step_from_llm_response(step_counter', r)>>]
    /\ UNCHANGED <<mode, prompt, history, worker_vars, observer_vars, queue, enqueued,
                   exec_log, files_vars, shell_vars, fsm_vars, ledger_vars, lock_vars>>

\* A caller records a result in the planner.
PlannerRecordStepResult ==
    /\ Len(history) < MaxSteps
    /\ \E res \in StepResults :
          /\ record_step_result(res)
          /\ planner_call' = [op |-> "record_step_result", result |-> res]
    /\ UNCHANGED <<mode, prompt, analyzed, gateway_failed, step_counter, worker_vars,
                   observer_vars, queue, enqueued, exec_log, files_vars, shell_vars,
                   fsm_vars, ledger_vars, lock_vars>>

\* Every sequence of get_next_step and record_step_result calls on a new
\* DynamicPlanner, for both gateway modes: at most MaxSteps steps are
\* created and at most MaxSteps results recorded.
PlannerInit ==
    /\ mode \in Modes
    /\ prompt \in Prompts
    /\ CockpitStart
    /\ FilesIdle /\ ShellIdle /\ FsmIdle /\ LedgerIdle /\ PlannerIdle /\ LockIdle

PlannerNext == PlannerGetNextStep \/ PlannerRecordStepResult

PlannerSpec == PlannerInit /\ [][PlannerNext]_vars

\* The add_task calls started so far by the processes of a set
RECURSIVE Started(_)
Started(ps) ==
    IF ps = {} THEN 0
    ELSE LET p == CHOOSE q \in ps : TRUE
         IN  procs[p].calls + Started(ps \ {p})

\* procs with the process p at proc
Move(p, proc) == [procs EXCEPT ![p] = proc]

\* Process p starts add_task: it calls get_tasks, which enters
\* `with lock:`.
ProcAddTask(p) ==
    /\ procs[p].pc = "rest"
    /\ Started(Procs) < MaxCalls
    /\ procs' = Move(p, [procs[p] EXCEPT !.pc = "acquire", !.call = "get_tasks",
                                         !.tasks = <<>>, !.exc = NoExc,
                                         !.calls = @ + 1])
    /\ UNCHANGED <<lock_file, tasks_file, now>>

\* FileLock.acquire: one os.open that creates the lock file. (An open that
\* finds the file sleeps and tries again, which changes nothing.)
ProcAcquire(p) ==
    /\ procs[p].pc = "acquire"
    /\ os_open(lock_file, p).exc = NoExc
    /\ lock_file' = os_open(lock_file, p).lock
    /\ procs' = Move(p, [procs[p] EXCEPT !.pc = "body", !.fd = TRUE])
    /\ UNCHANGED <<tasks_file, now>>

\* A timed-out acquire that runs the release of the with statement.
ProcAcquireTimeoutReleases(p) ==
    /\ procs[p].pc = "acquire"
    /\ os_open(lock_file, p).exc # NoExc
    /\ procs' = Move(p, [procs[p] EXCEPT !.pc = "close",
                                         !.exc = "Could not acquire lock"])
    /\ UNCHANGED <<lock_file, tasks_file, now>>

\* FileLock.acquire: the open found the lock file and the timeout is over:
\* Timeout leaves __enter__, so __exit__ does not run, and get_tasks or
\* save_tasks raises IOError, which ends add_task.
ProcAcquireTimeout(p) ==
    /\ procs[p].pc = "acquire"
    /\ os_open(lock_file, p).exc # NoExc
    /\ procs' = Move(p, [procs[p] EXCEPT !.pc = "rest", !.call = "none",
                                         !.exc = "Could not acquire lock"])
    /\ UNCHANGED <<lock_file, tasks_file, now>>

\* The with-body of get_tasks
ProcGetBody(p) ==
    /\ procs[p].pc = "body" /\ procs[p].call = "get_tasks"
    /\ IF Corrupt(tasks_file)
       THEN /\ procs' = Move(p, [procs[p] EXCEPT !.pc = "close",
                                                 !.exc = "JSONDecodeError"])
            /\ UNCHANGED tasks_file
       ELSE /\ procs' = Move(p, [procs[p] EXCEPT !.pc = "close",
                                                 !.tasks = get_tasks(tasks_file).tasks])
            /\ tasks_file' = get_tasks(tasks_file).file
    /\ UNCHANGED <<lock_file, now>>

\* The with-body of save_tasks
ProcSaveBody(p) ==
    /\ procs[p].pc = "body" /\ procs[p].call = "save_tasks"
    /\ tasks_file' = save_tasks(procs[p].tasks, tasks_file)
    /\ procs' = Move(p, [procs[p] EXCEPT !.pc = "close"])
    /\ UNCHANGED <<lock_file, now>>

\* FileLock.release, first part: os.close(self._fd); self._fd = None
ProcClose(p) ==
    /\ procs[p].pc = "close"
    /\ procs' = Move(p, [procs[p] EXCEPT !.pc = "exists", !.fd = FALSE])
    /\ UNCHANGED <<lock_file, tasks_file, now>>

\* What follows the with statement. get_tasks: after a decode error it raises
\* ValueError, which ends add_task; else it returns and add_task builds the
\* new task, appends it and calls save_tasks. save_tasks: add_task returns.
AfterWith(proc, t) ==
    IF proc.call = "save_tasks"
    THEN [proc EXCEPT !.pc = "rest", !.call = "none", !.returned = @ + 1]
    ELSE IF proc.exc # NoExc
    THEN [proc EXCEPT !.pc = "rest", !.call = "none"]
    ELSE [proc EXCEPT !.pc = "acquire", !.call = "save_tasks",
                      !.tasks = Append(@, new_task(proc.tasks, Description, Project, t))]

\* The clock after AfterWith: add_task reads it three times.
ClockAfter(proc, t) ==
    IF proc.call = "get_tasks" /\ proc.exc = NoExc THEN t + 3 ELSE t

\* FileLock.release, second part: os.path.exists(self.lock_path); with no
\* lock file the release and the with statement are over.
ProcExists(p) ==
    /\ procs[p].pc = "exists"
    /\ IF lock_file # 0
       THEN /\ procs' = Move(p, [procs[p] EXCEPT !.pc = "remove"])
            /\ UNCHANGED now
       ELSE /\ procs' = Move(p, AfterWith(procs[p], now))
            /\ now' = ClockAfter(procs[p], now)
    /\ UNCHANGED <<lock_file, tasks_file>>

\* FileLock.release, third part: os.remove(self.lock_path)
ProcRemove(p) ==
    /\ procs[p].pc = "remove"
    /\ lock_file' = os_remove(lock_file)
    /\ procs' = Move(p, AfterWith(procs[p], now))
    /\ now' = ClockAfter(procs[p], now)
    /\ UNCHANGED tasks_file

\* The processes run add_task calls, MaxCalls in all, at the same time on
\* one tasks file, which at first is missing, empty or not JSON.
LockInit ==
    /\ CockpitIdle /\ FilesIdle /\ ShellIdle /\ FsmIdle /\ PlannerIdle /\ LockIdle
    /\ tasks_file \in {NoFile, TasksFile(<<>>), CorruptFile}
    /\ now = 1
    /\ ledger_call = NoCall

LockNext ==
    \E p \in Procs :
       /\ \/ ProcAddTask(p)
          \/ ProcAcquire(p)
          \/ ProcAcquireTimeout(p)
          \/ ProcGetBody(p)
          \/ ProcSaveBody(p)
          \/ ProcClose(p)
          \/ ProcExists(p)
          \/ ProcRemove(p)
       /\ UNCHANGED <<cockpit_vars, files_vars, shell_vars, fsm_vars, ledger_call,
                      planner_call>>

LockSpec == LockInit /\ [][LockNext]_vars

\* ------------------------------------------------------------- properties

IsType(e, t) == e[1] = t

Positions(s, t) == {i \in 1..Len(s) : IsType(s[i], t)}

Last(s) == s[Len(s)]

\* The positions of the STEP_FINISHED events whose status is not succeeded
FailedAt(s) == {i \in Positions(s, "STEP_FINISHED") : s[i][3] # "succeeded"}

\* C1: the events put on the queue hold at most one AGENT_FINISHED, none but
\* the last event is one, and when the worker has returned there is exactly
\* one.
C1_ExactlyOneAgentFinishedLast ==
    /\ Cardinality(Positions(enqueued, "AGENT_FINISHED")) <= 1
    /\ \A i \in Positions(enqueued, "AGENT_FINISHED") : i = Len(enqueued)
    /\ pc = "done" => Cardinality(Positions(enqueued, "AGENT_FINISHED")) = 1

\* C2: once a STEP_FINISHED with a status other than succeeded is enqueued,
\* only AGENT_FINISHED events follow it, the worker has left its loop, the
\* planner reports finished, and the failed execution is the last one
\* (every execution before the last one succeeded).
C2_HaltOnFirstFailure ==
    /\ \A i \in FailedAt(enqueued) :
          /\ \A j \in (i + 1)..Len(enqueued) : IsType(enqueued[j], "AGENT_FINISHED")
          /\ pc \in {"finally", "done"}
          /\ task_complete
          /\ exec_log # <<>> /\ Last(exec_log).result.status # "succeeded"
    /\ \A k \in 1..(Len(exec_log) - 1) : exec_log[k].result.status = "succeeded"

\* C2 witness: A succeeded, B failed, the run is over with two steps
\* announced and executed although the decision source could give a third.
C2_Witness ==
    /\ pc = "done"
    /\ step_counter = 2
    /\ Len(exec_log) = 2
    /\ Cardinality(Positions(enqueued, "NEW_STEP")) = 2
    /\ FailedAt(enqueued) = {6}
    /\ enqueued[3][3] = "succeeded"

\* C3: when a step finished with a status other than succeeded, the
\* AGENT_FINISHED the run ends with carries failed, and so does the
\* Observer's final status.
C3_FailedStepGivesFailedRun ==
    FailedAt(enqueued) # {} =>
        /\ pc = "done" => Last(enqueued)[2] = "failed"
        /\ ui = "done" => final_status = "failed"

\* C4: once the except clause has run, the first AGENT_FINISHED enqueued is
\* failed with the exception's (non-empty) message; and when the Observer
\* has ended, it ended on that event and its final status is failed.
C4_ExceptionGivesFailedTerminal ==
    (exc # NoExc /\ pc # "except") =>
        /\ Positions(enqueued, "AGENT_FINISHED") # {}
        /\ LET first == CHOOSE i \in Positions(enqueued, "AGENT_FINISHED") :
                           \A j \in Positions(enqueued, "AGENT_FINISHED") : i <= j
           IN  /\ enqueued[first] = <<"AGENT_FINISHED", "failed", exc>>
               /\ exc # ""
        /\ ui = "done" =>
              /\ final_status = "failed"
              /\ Last(applied) = <<"AGENT_FINISHED", "failed", exc>>

\* C4 witness: an exception was raised, the worker returned and the Observer
\* ended with final status failed.
C4_Witness ==
    /\ exc # NoExc
    /\ pc = "done"
    /\ ui = "done"
    /\ final_status = "failed"

\* C5: the worker eventually returns and the Observer eventually has a final
\* status.
C5_ObserverReachesFinalStatus == <>(pc = "done" /\ final_status # None)

\* C6: every STEP_FINISHED(id) has an earlier STEP_STARTED(id), and every
\* STEP_STARTED(id) has an earlier NEW_STEP whose step has that id.
C6_FinishedAfterStartedAfterNew ==
    /\ \A i \in Positions(enqueued, "STEP_FINISHED") :
          \E k \in Positions(enqueued, "STEP_STARTED") :
             /\ k < i
             /\ enqueued[k][2] = enqueued[i][2]
             /\ \E j \in Positions(enqueued, "NEW_STEP") :
                   j < k /\ enqueued[j][2].id = enqueued[i][2]
    /\ \A k \in Positions(enqueued, "STEP_STARTED") :
          \E j \in Positions(enqueued, "NEW_STEP") :
             j < k /\ enqueued[j][2].id = enqueued[k][2]

\* C6 witness: two steps have finished, the second under an id the decision
\* response chose itself.
C6_Witness ==
    /\ Cardinality(Positions(enqueued, "STEP_FINISHED")) = 2
    /\ step_counter = 2
    /\ next_step.id = 1

\* C7: what the Observer has taken, followed by what still waits in the
\* queue, is what the worker has put: same order, nothing skipped, nothing
\* twice.
C7_AppliedIsPrefixOfEnqueued ==
    /\ Len(enqueued) = Len(applied) + Len(queue)
    /\ \A i \in 1..Len(applied) : applied[i] = enqueued[i]
    /\ \A i \in 1..Len(queue) : queue[i] = enqueued[Len(applied) + i]

\* C7 witness: the Observer has applied some events while others wait.
C7_Witness ==
    /\ Len(applied) >= 2
    /\ Len(queue) >= 2

StatusRank(st) == IF st = "pending" THEN 1 ELSE IF st = "running" THEN 2 ELSE 3

MovesForward(a, b) == a = b \/ StatusRank(b) > StatusRank(a)

\* C8: no step of the Observer changes the status of a step id except
\* forward: pending, then running, then one terminal status.
C8_StatusNeverRegresses ==
    [][\A id \in DOMAIN step_status : MovesForward(step_status[id], step_status'[id])]_vars

\* C9: every call of execute_step returned a result whose status is succeeded
\* or failed, and failed with a non-empty error when the handler raised.
C9_ExecuteStepIsTotal ==
    \A k \in 1..Len(exec_log) :
       LET res == exec_log[k].result
       IN  /\ "status" \in DOMAIN res
           /\ res.status \in {"succeeded", "failed"}
           /\ exec_log[k].raised =>
                 /\ res.status = "failed"
                 /\ "error" \in DOMAIN res
                 /\ res.error # ""

\* C9 witness: a handler raised inside execute_step and the worker went on
\* with the returned result.
C9_Witness ==
    /\ exec_log # <<>>
    /\ Last(exec_log).raised
    /\ pc = "finish_step"

\* C10: every subprocess a run_command step started was started after the
\* policy had been asked about that command.
C10_PolicyGateBeforeSubprocess ==
    \A k \in 1..Len(exec_log) :
       exec_log[k].step.action = "run_command" =>
          \A i \in 1..Len(exec_log[k].effects) :
             exec_log[k].effects[i].kind = "subprocess" =>
                \E j \in 1..(i - 1) :
                   exec_log[k].effects[j] =
                      Effect("policy.is_allowed", exec_log[k].effects[i].arg)

\* C11: execute_step never waits for ever on a subprocess: when the child of
\* a run_command or verify_code step never exits, the call still returns
\* (with a failed result), so the worker is never stuck inside a dispatch.
C11_DispatchAlwaysReturns == pc # "hung"

\* What the worker's except clause holds when the planner raised while the
\* next step was obtained
DecisionSourceErrors ==
    {"cannot read the project", "argument after ** must be a mapping"}

DecisionSourceFailed == gateway_failed \/ exc \in DecisionSourceErrors

\* C12: when the gateway or the planner failed while the next step was
\* obtained, the finished run holds an AGENT_FINISHED that is failed and
\* carries a message, and the Observer's final status is failed.
C12_DecisionFailureGivesFailedRun ==
    (DecisionSourceFailed /\ pc = "done") =>
        /\ \E i \in Positions(enqueued, "AGENT_FINISHED") :
              /\ enqueued[i][2] = "failed"
              /\ Len(enqueued[i]) = 3
              /\ enqueued[i][3] # ""
        /\ ui = "done" => final_status = "failed"

\* The decision source has ended the task and every executed step succeeded.
CleanStop ==
    /\ task_complete
    /\ \A k \in 1..Len(exec_log) : exec_log[k].result.status = "succeeded"

\* C13: after a clean stop the worker has left its loop without an
\* exception, every step it announced was executed before the stop and none
\* is announced after it, and the one AGENT_FINISHED it puts is the last
\* event and carries succeeded, which is the Observer's final status.
C13_CleanStopGivesSucceeded ==
    CleanStop =>
        /\ exc = NoExc
        /\ pc \in {"finally", "done"}
        /\ Cardinality(Positions(enqueued, "NEW_STEP")) = Len(exec_log)
        /\ Cardinality(Positions(enqueued, "STEP_FINISHED")) = Len(exec_log)
        /\ pc = "finally" => Positions(enqueued, "AGENT_FINISHED") = {}
        /\ pc = "done" =>
              /\ Last(enqueued) = <<"AGENT_FINISHED", "succeeded">>
              /\ Cardinality(Positions(enqueued, "AGENT_FINISHED")) = 1
        /\ ui = "done" => final_status = "succeeded"

\* C13 witness: two steps succeeded, the decision source then ended the
\* task, the worker returned and the Observer ended.
C13_Witness ==
    /\ CleanStop
    /\ Len(exec_log) = 2
    /\ pc = "done"
    /\ ui = "done"

\* No "." or ".." component and no symbolic link on the way
Canonical(links, p) ==
    /\ \A i \in 1..Len(p) : p[i] \notin {".", "..", ""}
    /\ Prefixes(p) \cap LinkSources(links) = {}

\* C14: _resolve either returns a canonical path that is the root or lies
\* below it, or raises the escape error; "../../etc/passwd" raises,
\* "sub/file.txt" gives root/sub/file.txt and "." gives the root.
C14_ResolveStaysInsideRoot ==
    files_call.op # "none" =>
        LET target == files_call.target
        IN  /\ target.exc \in {NoExc, EscapeError}
            /\ target.exc = NoExc =>
                  /\ Canonical(fs.links, target.path)
                  /\ IsUnder(Root, target.path)
            /\ files_call.arg = RelPath(<<"..", "..", "etc", "passwd">>) =>
                  target.exc = EscapeError
            /\ files_call.arg = RelPath(<<"sub", "file.txt">>) =>
                  target = [exc |-> NoExc, path |-> <<"work", "sandbox", "sub", "file.txt">>]
            /\ files_call.arg = RelPath(<<".">>) =>
                  target = [exc |-> NoExc, path |-> Root]

\* C14 witness: a call with "../../etc/passwd" raised the escape error.
C14_Witness ==
    /\ files_call.op # "none"
    /\ files_call.arg = RelPath(<<"..", "..", "etc", "passwd">>)
    /\ files_call.exc = EscapeError

\* C15: a read or write whose path resolves outside the root raises and
\* reads, creates and writes nothing; and no path that any call has read,
\* created or written lies outside the root.
C15_NothingOutsideRootTouched ==
    /\ (files_call.op # "none" /\ files_call.target.exc # NoExc) =>
          /\ files_call.exc # NoExc
          /\ files_call.touched = {}
    /\ \A t \in touched : IsUnder(Root, t.path)

EmptyCommandLines == {Text(""), Text("   "), Tokens(<<>>)}

\* C16: a run of an empty command, or of one the policy answered false for,
\* raised and started nothing; at most one subprocess is started, after the
\* policy answered true for exactly its argument tuple, without a shell and
\* in the sandbox root.
C16_NoSubprocessUnlessAllowed ==
    shell_call.op = "run" =>
        /\ Len(shell_call.spawned) <= 1
        /\ \A i \in 1..Len(shell_call.spawned) :
              /\ shell_call.asked = <<Asked(shell_call.spawned[i].args, TRUE)>>
              /\ shell_call.spawned[i].shell = FALSE
              /\ shell_call.spawned[i].cwd = Root
        /\ (\/ shell_call.command \in EmptyCommandLines
            \/ \E j \in 1..Len(shell_call.asked) : ~shell_call.asked[j].answer) =>
              /\ shell_call.exc # NoExc
              /\ shell_call.spawned = <<>>

\* C16 witness: a run of a command the policy rejected raised and started
\* nothing.
C16_Witness ==
    /\ shell_call.op = "run"
    /\ shell_call.asked # <<>>
    /\ ~shell_call.asked[1].answer
    /\ shell_call.exc = "Command is rejected by the execution policy"
    /\ shell_call.spawned = <<>>

\* What the rule set of a policy says about a command
RuleSetAllows(policy, command) ==
    /\ policy.kind = "AllowListPolicy"
    /\ command # <<>>
    /\ command[1] \in policy._allowed

\* C17: every answer of is_allowed, asked directly or by ShellTool.run, is
\* what the configured rule set says about the command (an allow-list allows
\* exactly the non-empty commands whose first token it holds, deny-all
\* allows nothing); {git} allows [git, status] and denies [rm, -rf, /] and
\* the empty command; and no step changes the policy.
C17_PolicyIsPurePredicate ==
    /\ [](policy_call.op = "is_allowed" =>
            /\ policy_call.answer = RuleSetAllows(_policy, policy_call.command)
            /\ _policy = DenyAllPolicy => ~policy_call.answer
            /\ _policy = AllowListPolicy({"git"}) =>
                  /\ policy_call.command = <<"git", "status">> => policy_call.answer
                  /\ policy_call.command = <<"rm", "-rf", "/">> => ~policy_call.answer
                  /\ policy_call.command = <<>> => ~policy_call.answer)
    /\ [](shell_call.op = "run" =>
            \A j \in 1..Len(shell_call.asked) :
               shell_call.asked[j].answer =
                  RuleSetAllows(_policy, shell_call.asked[j].command))
    /\ [][_policy' = _policy]_vars

\* C17 witness: the allow-list {git} was asked about [git, status] and
\* allowed it, after a run in which it rejected a command.
C17_Witness ==
    /\ _policy = AllowListPolicy({"git"})
    /\ policy_call.op = "is_allowed"
    /\ policy_call.command = <<"git", "status">>
    /\ policy_call.answer
    /\ shell_call.op = "run"
    /\ shell_call.asked # <<>>
    /\ ~shell_call.asked[1].answer

LifecycleMoves ==
    {<<"pending", "running">>, <<"running", "succeeded">>, <<"running", "failed">>}

\* C18: a machine configured with the step lifecycle changes its state only
\* along pending->running, running->succeeded and running->failed, and
\* never leaves succeeded or failed.
C18_LifecycleMovesOnly ==
    [][machine = Lifecycle =>
          /\ _current' # _current => <<_current, _current'>> \in LifecycleMoves
          /\ _current \in {"succeeded", "failed"} => _current' = _current]_vars

\* C18 witness: the lifecycle machine is in succeeded and a transition asked
\* of it there was refused.
C18_Witness ==
    /\ machine = Lifecycle
    /\ _current = "succeeded"
    /\ fsm_call.op = "transition"
    /\ fsm_call.before = "succeeded"
    /\ fsm_call.exc # NoExc

\* The declared transitions of m from before to target
Declared(m, before, target) ==
    {i \in 1..Len(m._transitions) :
        m._transitions[i].source = before /\ m._transitions[i].target = target}

\* The target is unknown, or no transition is declared for the pair, or
\* every declared one has a guard and the guard is false.
Unreachable(m, before, target, guard_value) ==
    \/ target \notin m._states
    \/ Declared(m, before, target) = {}
    \/ \A i \in Declared(m, before, target) :
          m._transitions[i].guard # None /\ ~guard_value

\* C19: a transition call to an unreachable target raised an error and left
\* the current state as it was.
C19_InvalidTransitionRaises ==
    (fsm_call.op = "transition"
       /\ Unreachable(machine, fsm_call.before, fsm_call.target, fsm_call.guard_value)) =>
        /\ fsm_call.exc # NoExc
        /\ _current = fsm_call.before

\* C19 witness: the guarded machine was asked to go from running to
\* succeeded while the guard was false, and refused.
C19_Witness ==
    /\ machine = GuardedLifecycle
    /\ fsm_call.op = "transition"
    /\ fsm_call.before = "running"
    /\ fsm_call.target = "succeeded"
    /\ ~fsm_call.guard_value
    /\ fsm_call.exc # NoExc
    /\ _current = "running"

KnownActions == {"human_feedback", "modify_code", "verify_code", "run_command"}

\* C20: every execute_step call on a step whose action is none of the known
\* kinds returned failed with the error "Unknown action: <action>", without
\* an exception inside the dispatcher and without any handler effect.
C20_UnknownActionFailsWithoutEffect ==
    \A k \in 1..Len(exec_log) :
       LET action == Get(exec_log[k].step, "action", None)
       IN  (~Falsy(action) /\ action \notin KnownActions) =>
              /\ exec_log[k].result.status = "failed"
              /\ Get(exec_log[k].result, "error", None) = "Unknown action: " \o action
              /\ ~exec_log[k].raised
              /\ exec_log[k].effects = <<>>

\* C20 witness: a step with the action "deploy" was dispatched and the
\* worker went on with its result.
C20_Witness ==
    /\ exec_log # <<>>
    /\ Last(exec_log).step.action = "deploy"
    /\ pc = "finish_step"

\* C21: every execute_step call on a human_feedback step asked for exactly one
\* confirmation and returned what the answer alone decides: succeeded for
\* true, failed with "Operation cancelled by user" for false, whatever the
\* step's question, description and id.
C21_FeedbackAnswerDecides ==
    \A k \in 1..Len(exec_log) :
       exec_log[k].step.action = "human_feedback" =>
          /\ Len(exec_log[k].effects) = 1
          /\ exec_log[k].effects[1].kind = "request_confirmation"
          /\ exec_log[k].outcome = "ok" => exec_log[k].result = [status |-> "succeeded"]
          /\ exec_log[k].outcome = "fail" =>
                exec_log[k].result =
                   [status |-> "failed", error |-> "Operation cancelled by user"]

\* C21 witness: two human_feedback steps with different questions were
\* dispatched, the first confirmed and the second refused.
C21_Witness ==
    /\ Len(exec_log) = 2
    /\ exec_log[1].step.action = "human_feedback"
    /\ exec_log[2].step.action = "human_feedback"
    /\ exec_log[1].effects # exec_log[2].effects
    /\ exec_log[1].outcome = "ok"
    /\ exec_log[2].outcome = "fail"

\* The code_ops function of a recognised operation and the step parameters
\* it is given after the project root
CodeOpsFunction ==
    [replace_library |-> "code_ops.replace_library",
     update_dependency |-> "code_ops.update_dependency",
     add_endpoint |-> "code_ops.add_fastapi_endpoint",
     refactor_godobject |-> "code_ops.refactor_godobject"]

CodeOpsParameters ==
    [replace_library |-> <<"old_lib", "new_lib">>,
     update_dependency |-> <<"package", "version">>,
     add_endpoint |-> <<"path", "framework">>,
     refactor_godobject |-> <<"file">>]

CodeOpsArguments(step) ==
    <<ProjectRoot>> \o
    [i \in 1..Len(CodeOpsParameters[step.operation]) |->
        Get(step, CodeOpsParameters[step.operation][i], None)]

\* C22: every execute_step call on a modify_code step with a missing or
\* unrecognised operation returned failed and called no code_ops function;
\* with a recognised operation it called the matching function once, with
\* the project root and the step's parameters, and returned failed when the
\* function raised or refactor_godobject reported failed, and otherwise
\* succeeded with the function's summary.
C22_ModifyCodeDispatch ==
    \A k \in 1..Len(exec_log) :
       LET step == exec_log[k].step
           res == exec_log[k].result
       IN  step.action = "modify_code" =>
              IF Get(step, "operation", None) \notin DOMAIN CodeOpsFunction
              THEN /\ res.status = "failed"
                   /\ exec_log[k].effects = <<>>
              ELSE /\ exec_log[k].effects =
                         <<Effect(CodeOpsFunction[step.operation], CodeOpsArguments(step))>>
                   /\ res.status \in {"succeeded", "failed"}
                   /\ res.status = "failed" <=>
                         \/ exec_log[k].outcome = "raise"
                         \/ /\ step.operation = "refactor_godobject"
                            /\ exec_log[k].outcome = "fail"
                   /\ res.status = "succeeded" =>
                         /\ "summary" \in DOMAIN res
                         /\ \/ "function" \in DOMAIN res.summary
                            \/ Get(res.summary, "status", None) = "succeeded"

\* C22 witness: refactor_godobject was called and reported failed, and the
\* worker went on with a failed result.
C22_Witness ==
    /\ exec_log # <<>>
    /\ Get(Last(exec_log).step, "operation", None) = "refactor_godobject"
    /\ Last(exec_log).outcome = "fail"
    /\ Last(exec_log).effects # <<>>
    /\ Last(exec_log).result.status = "failed"
    /\ pc = "finish_step"

\* C23: every execute_step call on a run_command step without a command
\* returned failed and started nothing; with a command it started one
\* subprocess for it; the result is succeeded exactly when that subprocess
\* exited with code 0, and for another exit code it is failed with the
\* error "Command failed with exit code <code>" and carries stdout and
\* stderr.
C23_RunCommandStatus ==
    \A k \in 1..Len(exec_log) :
       LET step == exec_log[k].step
           res == exec_log[k].result
       IN  step.action = "run_command" =>
              /\ Falsy(Get(step, "command", None)) =>
                    res.status = "failed" /\ exec_log[k].effects = <<>>
              /\ ~Falsy(Get(step, "command", None)) =>
                    exec_log[k].effects = <<Effect("subprocess", step.command)>>
              /\ res.status = "succeeded" <=>
                    exec_log[k].effects # <<>> /\ exec_log[k].outcome = "ok"
              /\ (exec_log[k].effects # <<>> /\ exec_log[k].outcome = "fail") =>
                    /\ res.status = "failed"
                    /\ res.error = "Command failed with exit code 1"
                    /\ {"stdout", "stderr"} \subseteq DOMAIN res

\* C23 witness: a command exited with a non-zero code and the worker went on
\* with the failed result.
C23_Witness ==
    /\ exec_log # <<>>
    /\ Last(exec_log).step.action = "run_command"
    /\ Last(exec_log).outcome = "fail"
    /\ Last(exec_log).effects # <<>>
    /\ pc = "finish_step"

\* C24: at every moment of every delivery of every event list, the view of
\* the CockpitUI (plan, step statuses, current step, final status, log) is
\* the view that a new CockpitUI reaches when the events applied so far are
\* handed to it in one batch: the view depends on the ordered list alone.
C24_ViewIsReplayOfApplied == View = Replay(FreshView, applied)

\* C24 witness: three events were applied while a fourth was already waiting
\* behind them, and they left a plan and a log.
C24_Witness ==
    /\ Len(applied) = 3
    /\ Len(queue) = 1
    /\ log # <<>>
    /\ plan # <<>>
    /\ ui = "loop"

\* The step id whose status an applied event writes (0 for none), and the
\* status it writes
WrittenId(event) ==
    IF IsType(event, "NEW_STEP") THEN event[2].id
    ELSE IF IsType(event, "STEP_STARTED") \/ IsType(event, "STEP_FINISHED") THEN event[2]
    ELSE 0

WrittenStatus(event) ==
    IF IsType(event, "NEW_STEP") THEN "pending"
    ELSE IF IsType(event, "STEP_STARTED") THEN "running"
    ELSE IF event[3] = "succeeded" THEN "success" ELSE "failed"

\* C25: in every view, applying any STEP_FINISHED event twice gives the plan
\* and the status map that applying it once gives, and the status held for a
\* step id is the one written by the last applied event that wrote a status
\* for that id.
C25_LastWriteWins ==
    /\ \A event \in {e \in Events : IsType(e, "STEP_FINISHED")} :
          LET once == ApplyEvent(View, event)
              twice == ApplyEvent(once, event)
          IN  twice.plan = once.plan /\ twice.step_status = once.step_status
    /\ DOMAIN step_status = {WrittenId(applied[k]) : k \in 1..Len(applied)} \ {0}
    /\ \A id \in DOMAIN step_status :
          LET writes == {k \in 1..Len(applied) : WrittenId(applied[k]) = id}
              last == CHOOSE k \in writes : \A j \in writes : j <= k
          IN  step_status[id] = WrittenStatus(applied[last])

\* C25 witness: step 1 was started, the same STEP_FINISHED for it was applied
\* twice in a row, and a STEP_STARTED applied after them made it running again.
C25_Witness ==
    /\ Len(applied) = 4
    /\ applied[1] = <<"STEP_STARTED", 1>>
    /\ applied[2] = <<"STEP_FINISHED", 1, "failed", "boom">>
    /\ applied[3] = applied[2]
    /\ applied[4] = <<"STEP_STARTED", 1>>
    /\ step_status[1] = "running"

\* C26: the first AGENT_FINISHED that the Observer applies is the last event
\* it applies: that step assigns final_status, clears current_step and leaves
\* the loop, and from then on no step changes the plan, the step statuses,
\* the current step, the final status, the log or the list of applied events.
C26_ObserverStopsAtAgentFinished ==
    [][ /\ Cardinality(Positions(applied', "AGENT_FINISHED")) <= 1
        /\ \A i \in Positions(applied', "AGENT_FINISHED") : i = Len(applied')
        /\ applied' # applied /\ IsType(Last(applied'), "AGENT_FINISHED") =>
              /\ final_status' = Last(applied')[2]
              /\ current_step' = NoStep
              /\ ui' = "done"
        /\ final_status' # final_status =>
              applied' # applied /\ IsType(Last(applied'), "AGENT_FINISHED")
        /\ ui = "done" => UNCHANGED observer_vars ]_vars

\* C26 witness: the Observer left its loop with the status succeeded while
\* step 1 was running, and an AGENT_FINISHED with the status failed and a
\* STEP_FINISHED that were put afterwards stay on the queue.
C26_Witness ==
    /\ ui = "done"
    /\ final_status = "succeeded"
    /\ current_step = NoStep
    /\ applied = << <<"STEP_STARTED", 1>>, <<"AGENT_FINISHED", "succeeded">> >>
    /\ queue = << <<"AGENT_FINISHED", "failed", "boom">>,
                  <<"STEP_FINISHED", 1, "succeeded", "">> >>

\* C27: while the application runs, Ctrl-C can be taken in every state,
\* whatever the worker is doing and whatever the queue holds; the step that
\* ends the Observer is a step of the Observer alone (no worker step, no
\* event taken from the queue), and after it the view no longer changes.
C27_InterruptEndsObserver ==
    /\ [](ui # "exited" => ENABLED Interrupt)
    /\ [][ /\ (ui # "exited" /\ ui' = "exited") =>
                 UNCHANGED <<worker_vars, planner_vars, queue, enqueued, applied, exec_log>>
           /\ ui = "exited" => UNCHANGED observer_vars ]_vars

\* C27 witness: the Observer is gone while the worker is blocked inside a
\* dispatch, events wait on the queue and no AGENT_FINISHED was ever put.
C27_Witness ==
    /\ ui = "exited"
    /\ pc = "hung"
    /\ queue # <<>>
    /\ final_status = None
    /\ Positions(enqueued, "AGENT_FINISHED") = {}

\* The positions of the worker at which its next step is a put
PutPositions == {"announce", "start_step", "finish_step", "except", "finally"}

\* C28: whenever the worker is about to put an event, it can take that step,
\* however many events wait on the queue and whatever the Observer has done,
\* in every state of every run and so also in the runs in which the
\* Observer never takes an event.
C28_PutNeverBlocks == pc \in PutPositions => ENABLED Worker(TRUE)

\* C28 witness: the worker ran MaxSteps steps to the end and put its terminal
\* event while the Observer had applied nothing: every event still waits.
C28_Witness ==
    /\ pc = "done"
    /\ applied = <<>>
    /\ queue = enqueued
    /\ Len(queue) = 3 * MaxSteps + 1
    /\ IsType(Last(queue), "AGENT_FINISHED")

\* The positions of the worker between the announcement of a step and the
\* end of its cycle
Announced == {"start_step", "execute", "record", "finish_step", "hung"}

\* The step carried by the last NEW_STEP event put so far
LastAnnounced(s) ==
    s[CHOOSE i \in Positions(s, "NEW_STEP") : \A j \in Positions(s, "NEW_STEP") : j <= i][2]

\* C29: a step that changes the plan, a step status, the current step or the
\* final status is the Observer taking the head of the queue and applying
\* it, and it changes nothing of the worker or the planner; a step of the
\* worker leaves the whole view as it is; and from its announcement to the
\* end of its cycle the worker's step stays the record that NEW_STEP carries.
C29_ViewOwnedByObserver ==
    [][ /\ <<plan, step_status, current_step, final_status>>' #
              <<plan, step_status, current_step, final_status>> =>
              /\ queue # <<>>
              /\ queue' = Tail(queue)
              /\ applied' = Push(applied, Head(queue))
              /\ View' = ApplyEvent(View, Head(queue))
              /\ UNCHANGED <<worker_vars, planner_vars, enqueued, exec_log>>
        /\ <<worker_vars, planner_vars, enqueued, exec_log>>' #
              <<worker_vars, planner_vars, enqueued, exec_log>> =>
              UNCHANGED <<plan, step_status, current_step, final_status, log, ui, applied>>
        /\ pc \in Announced => next_step' = next_step
        /\ pc' \in Announced => LastAnnounced(enqueued') = next_step' ]_vars

\* C29 witness: the worker has executed and recorded the step it announced
\* and the Observer has the same record in its plan.
C29_Witness ==
    /\ pc = "finish_step"
    /\ plan # <<>>
    /\ Last(plan) = next_step
    /\ result.step = next_step
    /\ step_status[next_step.id] = "running"

\* The ids of the tasks of a tasks file
IdsIn(file) == {file.tasks[i].id : i \in 1..Len(file.tasks)}

\* What the last update_task_status call did to the tasks: for an id that
\* was not in the ledger it raised "Task with ID <id> not found." and the
\* tasks are the same; for an id in the ledger the tasks are the same but for
\* that task, of which status, updated_at, history (one more entry) and, for
\* the status done, completed_at changed and nothing else.
UpdateEffect ==
    LET before == ledger_call.before.tasks
        after == tasks_file.tasks
    IN  IF ledger_call.task_id \notin IdsIn(ledger_call.before)
        THEN /\ ledger_call.exc =
                   "Task with ID " \o ToString(ledger_call.task_id) \o " not found."
             /\ after = before
        ELSE /\ ledger_call.exc = NoExc
             /\ Len(after) = Len(before)
             /\ \A i \in 1..Len(before) :
                   IF before[i].id # ledger_call.task_id THEN after[i] = before[i]
                   ELSE /\ after[i].status = ledger_call.new_status
                        /\ after[i].updated_at >= ledger_call.at
                        /\ Len(after[i].history) = Len(before[i].history) + 1
                        /\ \A k \in 1..Len(before[i].history) :
                              after[i].history[k] = before[i].history[k]
                        /\ Last(after[i].history).action =
                              "status changed to " \o ledger_call.new_status
                        /\ after[i].completed_at =
                              IF ledger_call.new_status = "done"
                              THEN Last(after[i].history).timestamp + 1
                              ELSE before[i].completed_at
                        /\ after[i].id = before[i].id
                        /\ after[i].description = before[i].description
                        /\ after[i].project = before[i].project
                        /\ after[i].created_at = before[i].created_at

\* C30 as stated: after every update_task_status call the tasks are changed
\* as UpdateEffect says, and a call for an id that is not in the ledger
\* leaves the tasks file as it was.
C30_UpdateChangesOnlyThatTask ==
    ledger_call.op = "update_task_status" =>
        /\ UpdateEffect
        /\ ledger_call.exc # NoExc => tasks_file = ledger_call.before

\* C30 amended: after every update_task_status call the tasks are changed as
\* UpdateEffect says; a call for an id that is not in the ledger leaves an
\* existing tasks file as it was, and where there was no tasks file it leaves
\* a new one that holds the empty list.
C30_UpdateChangesOnlyThatTaskOrCreatesFile ==
    ledger_call.op = "update_task_status" =>
        /\ UpdateEffect
        /\ ledger_call.exc # NoExc =>
              IF ledger_call.before.exists THEN tasks_file = ledger_call.before
              ELSE tasks_file = TasksFile(<<>>)

\* C30 witness: the second of two tasks was set to done; the call returned
\* it and the first task is as it was.
C30_Witness ==
    /\ ledger_call.op = "update_task_status"
    /\ ledger_call.task_id = 2
    /\ ledger_call.new_status = "done"
    /\ ledger_call.exc = NoExc
    /\ Len(tasks_file.tasks) = 2
    /\ tasks_file.tasks[1] = ledger_call.before.tasks[1]
    /\ tasks_file.tasks[2].completed_at # NoTime
    /\ ledger_call.ret = <<tasks_file.tasks[2]>>

\* The largest id of a set of ids, 0 for none
Largest(ids) == IF ids = {} THEN 0 ELSE CHOOSE m \in ids : \A i \in ids : i <= m

\* C31: after every add_task call the tasks file holds the tasks it held
\* before followed by one new task, which has the status pending and the id
\* one more than the largest id held before (1 when there was none); and
\* after every sequence of add_task and update_task_status calls the ids in
\* the file are pairwise distinct and every id held before the last call is
\* still there.
C31_AddTaskAppendsFreshId ==
    /\ ledger_call.op = "add_task" =>
          LET before == ledger_call.before.tasks
              after == tasks_file.tasks
          IN  /\ Len(after) = Len(before) + 1
              /\ \A i \in 1..Len(before) : after[i] = before[i]
              /\ Last(after).status = "pending"
              /\ Last(after).id = Largest(IdsIn(ledger_call.before)) + 1
              /\ ledger_call.ret = <<Last(after)>>
    /\ Cardinality(IdsIn(tasks_file)) = Len(tasks_file.tasks)
    /\ ledger_call.op # "none" => IdsIn(ledger_call.before) \subseteq IdsIn(tasks_file)

\* C31 witness: a third task was added after the first was set to done; it
\* has the id 3 and the status pending.
C31_Witness ==
    /\ ledger_call.op = "add_task"
    /\ Len(tasks_file.tasks) = 3
    /\ tasks_file.tasks[1].status = "done"
    /\ tasks_file.tasks[3].id = 3
    /\ tasks_file.tasks[3].status = "pending"

\* The events of the steps: the stream without its AGENT_FINISHED events
StepEvents(s) == SelectSeq(s, LAMBDA e : ~IsType(e, "AGENT_FINISHED"))

\* The events of the steps come in groups of three, NEW_STEP, STEP_STARTED
\* and STEP_FINISHED of one step, the last group possibly unfinished, and
\* the k-th STEP_FINISHED follows the k-th entry of the planner's history,
\* which holds that step and the status that the event reports.
OneStepAtATime ==
    LET s == StepEvents(enqueued)
    IN  \A i \in 1..Len(s) :
           LET k == (i + 2) \div 3
               new == s[3 * k - 2]
           IN  /\ IsType(new, "NEW_STEP")
               /\ i % 3 = 2 => IsType(s[i], "STEP_STARTED") /\ s[i][2] = new[2].id
               /\ i % 3 = 0 =>
                     /\ IsType(s[i], "STEP_FINISHED") /\ s[i][2] = new[2].id
                     /\ Len(history) >= k
                     /\ history[k].step = new[2]
                     /\ Get(history[k], "status", "failed") = s[i][3]

\* The worker thread takes no further step: it has returned, or it waits
\* in a call that never returns.
WorkerStopped == pc \in {"done", "hung"}

\* C32: the worker handles one step at a time, it records a result before it
\* puts the STEP_FINISHED of the step, and when it takes no further step
\* every announced step has its STEP_STARTED and its STEP_FINISHED.
C32_OneStepAtATime ==
    /\ OneStepAtATime
    /\ WorkerStopped => Len(StepEvents(enqueued)) % 3 = 0

\* C33: after every record_step_result, the history that the planner formats
\* for its next query has, for each recorded step, an entry with the status
\* that execute_step returned for it, with the error when that status is
\* failed and with the stdout when the result has one.
C33_HistoryShowsResult ==
    /\ Len(history) <= Len(exec_log)
    /\ \A k \in 1..Len(history) :
          LET entry == _format_history(history)[k]
              res == exec_log[k].result
          IN  /\ entry.status = Upper(Get(res, "status", "unknown"))
              /\ Get(res, "status", None) = "failed" =>
                    entry.error = Get(res, "error", "N/A")
              /\ (Get(res, "status", None) # "failed" /\ ~Falsy(Get(res, "stdout", None))) =>
                    entry.output = res.stdout

\* What the Observer shows for a returned status
Shown(status) == IF status = "succeeded" THEN "success" ELSE "failed"

\* C34: for every step whose STEP_FINISHED the Observer has applied, the
\* status that the Observer holds for the step's id is success when
\* execute_step returned succeeded for that step and failed otherwise.
C34_ObserverAgreesWithDispatcher ==
    \A k \in 1..Cardinality(Positions(applied, "STEP_FINISHED")) :
       /\ k <= Len(exec_log)
       /\ exec_log[k].step.id \in DOMAIN step_status
       /\ step_status[exec_log[k].step.id] =
             Shown(Get(exec_log[k].result, "status", "failed"))

\* C35: once the Observer holds a final status, every step of its plan has
\* the status success or failed.
C35_AllStepsTerminalAtFinalStatus ==
    final_status # None =>
        \A i \in 1..Len(plan) :
           /\ plan[i].id \in DOMAIN step_status
           /\ step_status[plan[i].id] \in {"success", "failed"}

\* C35 witness: the Observer shows a finished run of two steps, the second
\* of which failed.
C35_Witness ==
    /\ final_status # None
    /\ Len(plan) = 2
    /\ plan[1].id # plan[2].id
    /\ step_status[plan[1].id] = "success"
    /\ step_status[plan[2].id] = "failed"

\* C36: in every step of every run, the k-th step announced so far carries
\* the id k, so that the announced ids are pairwise distinct, and a
\* get_next_step call that returns no step leaves the counter as it was.
C36_StepIdsAreDistinct ==
    [][ /\ \A k \in 1..Cardinality(Positions(enqueued', "NEW_STEP")) :
              StepEvents(enqueued')[3 * k - 2][2].id = k
        /\ \A i, j \in Positions(enqueued', "NEW_STEP") :
              i # j => enqueued'[i][2].id # enqueued'[j][2].id
        /\ (pc = "loop" /\ pc' = "finally") => step_counter' = step_counter ]_vars

\* is_finished()
is_finished == task_complete

\* C37: a planner that is finished stays finished, and a get_next_step call
\* on a finished planner returns no step, does not query the gateway and
\* leaves the counter and the history as they are; the planner is finished
\* after it recorded a failed result and after the gateway answered nothing
\* or finish_task.
C37_IsFinishedIsMonotone ==
    [][ /\ is_finished => is_finished'
        /\ (is_finished /\ planner_call'.op = "get_next_step") =>
              /\ planner_call'.ret = <<>>
              /\ ~planner_call'.queried
              /\ planner_call'.exc = NoExc
              /\ UNCHANGED <<step_counter, history, analyzed, gateway_failed>>
        /\ (planner_call'.op = "record_step_result"
              /\ planner_call'.result.status = "failed") => is_finished'
        /\ (~is_finished /\ planner_call'.op = "get_next_step"
              /\ planner_call'.queried /\ step_counter' = step_counter) => is_finished'
      ]_vars

\* C37 witness: a failed result was recorded after one step was created, and
\* a later get_next_step call returned nothing without a query.
C37_Witness ==
    /\ is_finished
    /\ step_counter = 1
    /\ history # <<>>
    /\ Last(history).status = "failed"
    /\ planner_call = [op |-> "get_next_step", queried |-> FALSE, exc |-> NoExc,
                       ret |-> <<>>]

\* C38: at most one process is inside a with-body, the lock file is then
\* the one that process created, and a lock file is created only where
\* there was none.
C38_MutualExclusion ==
    [][ /\ Cardinality({p \in Procs : procs'[p].pc = "body"}) <= 1
        /\ \A p \in Procs : procs'[p].pc = "body" => lock_file' = p
        /\ (lock_file' # lock_file /\ lock_file' # 0) => lock_file = 0 ]_vars

\* C38 witness: process 2 is inside the with-body of save_tasks while
\* process 1 waits in acquire.
C38_Witness ==
    /\ procs[2].pc = "body" /\ procs[2].call = "save_tasks"
    /\ procs[1].pc = "acquire"
    /\ lock_file = 2

\* C39: when the processes have returned from their add_task calls, the
\* tasks file holds one task for every call that returned and the ids in it
\* are pairwise distinct.
C39_ConcurrentAddTaskKeepsBoth ==
    (\A p \in Procs : procs[p].pc = "rest") =>
        /\ Len(tasks_file.tasks) = procs[1].returned + procs[2].returned
        /\ Cardinality(IdsIn(tasks_file)) = Len(tasks_file.tasks)

\* C40: a process that is in no with statement holds no descriptor and has
\* left no lock file of its own, so with every process at rest there is no
\* lock file; a process whose acquire times out leaves the lock file as it
\* is; and the lock file of a process goes away only by the remove of that
\* process's own release.
C40_LockNeitherLeakedNorStolen ==
    [][ /\ \A p \in Procs :
              procs'[p].pc \in {"rest", "acquire"} => (~procs'[p].fd /\ lock_file' # p)
        /\ (\A p \in Procs : procs'[p].pc = "rest") => lock_file' = 0
        /\ \A p \in Procs :
              (procs[p].pc = "acquire" /\ procs'[p].pc = "rest") =>
                  (lock_file' = lock_file /\ lock_file # p)
        /\ \A p \in Procs :
              (lock_file = p /\ lock_file' # p) =>
                  (procs[p].pc = "remove" /\ procs'[p].pc # "remove") ]_vars

\* C40 witness: process 1 ran into a decode error inside the with-body and
\* is at rest again with no lock file of its own left, and process 2 has
\* acquired the lock in its second call.
C40_Witness ==
    /\ procs[1].pc = "rest" /\ procs[1].exc = "JSONDecodeError"
    /\ procs[2].pc = "body" /\ procs[2].calls = 2
    /\ lock_file = 2

====
